---- MODULE Spec2Model ----
(***************************************************************************)
(* Order admission and fulfilment pipeline of go-gin-high-concurrency:     *)
(* the Redis inventory engine (Lua scripts), the order service             *)
(* (PrepareOrder / DispatchOrder), the Redis Stream queue, the worker and  *)
(* the relational tables the dispatch writes to.                           *)
(***************************************************************************)
EXTENDS Integers, Sequences, FiniteSets, TLC

\* ------------------------------------------------------------------------
\* Bounds of the model
\* ------------------------------------------------------------------------
MaxStock == 2      \* largest stock a warmup seeds
MaxLimit == 2      \* largest per-user limit a warmup seeds
MaxQty   == 2      \* largest quantity of one request
MaxCalls == 3      \* inventory calls of one run of the engine
NumReqs  == 2      \* purchase requests (PrepareOrder calls) of one run
MaxOpens == 1      \* OpenForSale calls of one run
TicketStock == 3   \* tickets.total_stock of the ticket on sale
TicketLimit == 2   \* tickets.max_per_user of the ticket on sale

Tickets == {1}
Users   == {1, 2}
\* CreateOrderRequest.Quantity carries binding "required,min=1"
Quantities == 1..MaxQty
\* unit price seeded by the warmup (the value is carried, never computed on)
Price == 100
Reqs    == 1..NumReqs
Workers == {1, 2}
Cancellers == {1, 2}
\* RedisStreamOrderQueueConfig.MaxRetryCount, as the poison-message run sets it
MaxRetryCount == 3
\* SQL NULL in a column of the orders table
Null == 0
\* RedisStreamOrderQueueConfig.ClaimMinIdleTime, in ticks of 100ms, as the
\* redelivery run sets it
ClaimMinIdle == 2
\* the ticks a timed run lasts
MaxTime == 4

\* ------------------------------------------------------------------------
\* State
\* ------------------------------------------------------------------------
VARIABLES
    info,     \* Redis hash ticket:<id>:info  : field -> integer
    users,    \* Redis hash ticket:<id>:users : user id -> purchased count
    trace,    \* the inventory calls made so far, with what they returned
    pc,       \* PrepareOrder of request r: idle, publish, rollback, done
    req,      \* CreateOrderRequest of request r
    ctxDone,  \* the request context of r has been cancelled
    pubErr,   \* the error PublishOrder returned to r ("nil" if none)
    resp,     \* what PrepareOrder returned to r
    stream,   \* Redis stream orders:stream, entries in id order
    lastDelivered, \* last-delivered id of group order-workers
    pel,      \* pending entries list: entry -> [consumer, count, at]
    reading,  \* entries consumer w has read and not yet sent on out
    claimed,  \* entries consumer w has claimed and not yet gone through
    ready,    \* the first claimed entry of w passed the poison check
    discarded, \* entries shouldProcessMessage has XACKed as poison
    cur,      \* the delivery worker w is handling (0 if none)
    now,      \* the time of the Redis server, in ticks
    tickets,  \* table tickets
    orders,   \* table orders
    dispatches, \* stream entries DispatchOrder has run for with the database up
    migrated, \* migration 009 (orders.request_id, unique) has been applied
    received, \* stream entry -> number of Deliveries of it the workers received
    handled,  \* stream entry -> what the worker's last loop body for it did
    tx,       \* the Confirm, Cancel or repository call caller c has in progress
    lastStore, \* the last operation run directly on the tables
    creates,  \* request id -> what each Create called with it returned
    workerCtxDone, \* workerCancel has been called
    sub,      \* the goroutines and the out channel of consumer w's subscription
    ch,       \* OrderQueueImpl.ch: the orders in the channel's buffer
    sendq,    \* the goroutines blocked at a send on ch, in arrival order
    publisher, \* PublishOrder of caller p: idle, blocked, done
    subscriber, \* the goroutine of OrderQueueImpl.SubscribeOrders
    memWorker \* the worker loop reading the Deliveries of the channel queue

invVars == <<info, users, trace>>
prepVars == <<pc, req, ctxDone, pubErr, resp>>
queueVars == <<stream, lastDelivered, pel, reading, claimed, ready,
          discarded, cur, now>>
memVars == <<ch, sendq, publisher, subscriber, memWorker>>
runVars == <<workerCtxDone, sub, memVars>>
dbVars == <<tickets, orders, dispatches, migrated, received, handled,
           tx, lastStore, creates, runVars>>
vars == <<info, users, trace, pc, req, ctxDone, pubErr, resp,
          stream, lastDelivered, pel, reading, claimed, ready,
          discarded, cur, now,
          tickets, orders, dispatches, migrated, received, handled,
          tx, lastStore, creates, workerCtxDone, sub,
          ch, sendq, publisher, subscriber, memWorker>>

\* ------------------------------------------------------------------------
\* Redis hash commands used by the scripts
\* ------------------------------------------------------------------------
EmptyHash == << >>

\* HSET key field value [field value ...]
HSet(h, kv) == [f \in (DOMAIN h) \cup (DOMAIN kv) |->
                   IF f \in DOMAIN kv THEN kv[f] ELSE h[f]]

\* HINCRBY key field delta: an absent field counts as 0 and is created
HIncrBy(h, f, d) == [g \in (DOMAIN h) \cup {f} |->
                       IF g = f THEN (IF f \in DOMAIN h THEN h[f] ELSE 0) + d
                       ELSE h[g]]

\* redis.call('HGET', users_key, user_id) or '0'
UserBought(us, user_id) == IF user_id \in DOMAIN us THEN us[user_id] ELSE 0

\* ------------------------------------------------------------------------
\* Inventory engine
\* ------------------------------------------------------------------------
WarmUpInventoryIfAbsent(h, stock, price, limit) ==
    IF DOMAIN h = {}
    THEN HSet(h, [stock |-> stock, price |-> price, limit |-> limit])
    ELSE h
WarmUpInventory(h, stock, price, limit) ==
    HSet(h, [stock |-> stock, price |-> price, limit |-> limit])

\* Variants of the reservation script, each one slip away from it.
\* (a) the stock check is missing
DecreStockScriptNoStockCheck(h, us, user_id, request_qty) ==
    IF ~({"stock", "price", "limit"} \subseteq DOMAIN h)
    THEN [code |-> -3, price |-> 0, info |-> h, users |-> us]
    ELSE IF UserBought(us, user_id) + request_qty > h["limit"]
    THEN [code |-> -2, price |-> 0, info |-> h, users |-> us]
    ELSE [code |-> 1, price |-> h["price"],
          info  |-> HIncrBy(h, "stock", 0 - request_qty),
          users |-> HIncrBy(us, user_id, request_qty)]

\* (b) the per-user check compares the request alone with the limit
DecreStockScriptStaleBought(h, us, user_id, request_qty) ==
    IF ~({"stock", "price", "limit"} \subseteq DOMAIN h)
    THEN [code |-> -3, price |-> 0, info |-> h, users |-> us]
    ELSE IF h["stock"] < request_qty
    THEN [code |-> -1, price |-> 0, info |-> h, users |-> us]
    ELSE IF request_qty > h["limit"]
    THEN [code |-> -2, price |-> 0, info |-> h, users |-> us]
    ELSE [code |-> 1, price |-> h["price"],
          info  |-> HIncrBy(h, "stock", 0 - request_qty),
          users |-> HIncrBy(us, user_id, request_qty)]

\* (c) the purchase is not recorded for the user
DecreStockScriptNoUserRecord(h, us, user_id, request_qty) ==
    IF ~({"stock", "price", "limit"} \subseteq DOMAIN h)
    THEN [code |-> -3, price |-> 0, info |-> h, users |-> us]
    ELSE IF h["stock"] < request_qty
    THEN [code |-> -1, price |-> 0, info |-> h, users |-> us]
    ELSE IF UserBought(us, user_id) + request_qty > h["limit"]
    THEN [code |-> -2, price |-> 0, info |-> h, users |-> us]
    ELSE [code |-> 1, price |-> h["price"],
          info  |-> HIncrBy(h, "stock", 0 - request_qty),
          users |-> us]

\* (d) the stock is decremented before the per-user check
DecreStockScriptDecrementFirst(h, us, user_id, request_qty) ==
    IF ~({"stock", "price", "limit"} \subseteq DOMAIN h)
    THEN [code |-> -3, price |-> 0, info |-> h, users |-> us]
    ELSE IF h["stock"] < request_qty
    THEN [code |-> -1, price |-> 0, info |-> h, users |-> us]
    ELSE IF UserBought(us, user_id) + request_qty > h["limit"]
    THEN [code |-> -2, price |-> 0,
          info |-> HIncrBy(h, "stock", 0 - request_qty), users |-> us]
    ELSE [code |-> 1, price |-> h["price"],
          info  |-> HIncrBy(h, "stock", 0 - request_qty),
          users |-> HIncrBy(us, user_id, request_qty)]

\* (e) the per-user check comes before the stock check
DecreStockScriptLimitFirst(h, us, user_id, request_qty) ==
    IF ~({"stock", "price", "limit"} \subseteq DOMAIN h)
    THEN [code |-> -3, price |-> 0, info |-> h, users |-> us]
    ELSE IF UserBought(us, user_id) + request_qty > h["limit"]
    THEN [code |-> -2, price |-> 0, info |-> h, users |-> us]
    ELSE IF h["stock"] < request_qty
    THEN [code |-> -1, price |-> 0, info |-> h, users |-> us]
    ELSE [code |-> 1, price |-> h["price"],
          info  |-> HIncrBy(h, "stock", 0 - request_qty),
          users |-> HIncrBy(us, user_id, request_qty)]

\* The Lua script of DecreStock, one indivisible execution.
DecreStockScript(h, us, user_id, request_qty) ==
    IF ~({"stock", "price", "limit"} \subseteq DOMAIN h)
    THEN [code |-> -3, price |-> 0, info |-> h, users |-> us]
    ELSE IF h["stock"] < request_qty
    THEN [code |-> -1, price |-> 0, info |-> h, users |-> us]
    ELSE IF UserBought(us, user_id) + request_qty > h["limit"]
    THEN [code |-> -2, price |-> 0, info |-> h, users |-> us]
    ELSE [code |-> 1, price |-> h["price"],
          info  |-> HIncrBy(h, "stock", 0 - request_qty),
          users |-> HIncrBy(us, user_id, request_qty)]

\* The Go switch on the script's code.
ErrOfCode(code) ==
    CASE code = 1  -> "nil"
      [] code = -1 -> "ErrInsufficientStock"
      [] code = -2 -> "ErrExceedsMaxPerUser"
      [] code = -3 -> "ErrTicketNotFound"
      [] OTHER     -> "unexpected result"

\* DecreStock: Eval fails in transport (nothing ran) or the script's answer
\* is decoded into (ok, price, err).
DecreStock(h, us, quantity, userID, evalOK) ==
    IF ~evalOK
    THEN [ok |-> FALSE, price |-> 0, err |-> "transport", info |-> h, users |-> us]
    ELSE LET r == DecreStockScript(h, us, userID, quantity) IN
         [ok |-> (r.code = 1), price |-> IF r.code = 1 THEN r.price ELSE 0,
          err |-> ErrOfCode(r.code), info |-> r.info, users |-> r.users]

\* A variant of the rollback script that leaves the user's record alone.
RollbackStockScriptStockOnly(h, us, user_id, rollback_qty) ==
    [info  |-> HIncrBy(h, "stock", rollback_qty),
     users |-> us]

\* A variant of the rollback script that leaves the stock alone.
RollbackStockScriptUsersOnly(h, us, user_id, rollback_qty) ==
    [info  |-> h,
     users |-> HIncrBy(us, user_id, 0 - rollback_qty)]

\* The Lua script of RollbackStock: no lookup, no guard.
RollbackStockScript(h, us, user_id, rollback_qty) ==
    [info  |-> HIncrBy(h, "stock", rollback_qty),
     users |-> HIncrBy(us, user_id, 0 - rollback_qty)]

RollbackStock(h, us, quantity, userID, evalOK) ==
    IF ~evalOK
    THEN [err |-> "transport", info |-> h, users |-> us]
    ELSE LET r == RollbackStockScript(h, us, userID, quantity) IN
         [err |-> "nil", info |-> r.info, users |-> r.users]

\* GetStock: HGET ticket:<id>:info stock; redis.Nil maps to ErrTicketNotFound.
GetStock(h) ==
    IF "stock" \in DOMAIN h THEN [stock |-> h["stock"], err |-> "nil"]
    ELSE [stock |-> -1, err |-> "ErrTicketNotFound"]

\* RedisTicketInventoryManagerImpl.GetInfo: HGETALL, the three fields parsed
GetInfo(h) ==
    IF DOMAIN h = {}
    THEN [err |-> "ErrTicketNotFound", stock |-> 0, price |-> 0, limit |-> 0]
    ELSE [err |-> "nil", stock |-> h["stock"], price |-> h["price"],
          limit |-> h["limit"]]

\* one entry of the call trace: the call, its result, the hashes before it
CallAt(op, by, t, u, q, err, arg, h, us) ==
    [op |-> op, by |-> by, ticket |-> t, user |-> u, qty |-> q, err |-> err,
     arg |-> arg, preInfo |-> h, preUsers |-> us]
Call(op, by, t, u, q, err, arg) ==
    CallAt(op, by, t, u, q, err, arg, info[t], users[t])

\* ------------------------------------------------------------------------
\* The engine driven directly, as the cache tests drive it, against a store
\* that answers (every Eval runs its script)
\* ------------------------------------------------------------------------
NoRequest == [user |-> 0, ticket |-> 0, qty |-> 0, price |-> 0]
NoStoreOp == [op |-> "none", by |-> 0, ticket |-> 0, quantity |-> 0,
              err |-> "nil", remaining_stock |-> 0, total_stock |-> 0,
              order |-> 0, was |-> "none", status |-> "none", credited |-> 0]
\* caller c has no call in progress
NoTx == [call |-> "none", stage |-> "none", order |-> 0, was |-> "none",
         ticket |-> 0, quantity |-> 0, request_id |-> 0, read |-> 0]
\* SubscribeOrders has started the read loop and the auto-claim loop on an
\* open channel, and OrderWorker.Start its receive loop
\* body is where the worker's DispatchOrder stands (none, begun, committed),
\* late says that the auto-claim loop came to its send after the
\* cancellation, atCancel that the DispatchOrder in hand was in flight when
\* the worker's scope was cancelled, last is the loop body that ended last
NoBody == [entry |-> 0, err |-> "nil", acked |-> FALSE, atCancel |-> FALSE]
Subscribed == [readLoop |-> "running", autoClaim |-> "running",
               out |-> "open", worker |-> "running", body |-> "none",
               late |-> FALSE, atCancel |-> FALSE, last |-> NoBody]

\* the channel queue (OrderQueueImpl): bufferSize of NewOrderQueue
BufferSize == 1
\* concurrent callers of PublishOrder, each publishing one order, named
\* after its caller: as many as fill the buffer while the subscriber
\* goroutine and the worker hold an order each
Publishers == 1..(BufferSize + 2)
\* SubscribeOrders has started its goroutine, which stands at its select,
\* and OrderWorker.Start its loop, which stands at its receive
AtSelect == [state |-> "select", order |-> 0]
AtReceive == [state |-> "receive", order |-> 0]
\* nothing published on the channel queue yet
InitChanQueue ==
    /\ ch = << >>
    /\ sendq = << >>
    /\ publisher = [p \in Publishers |-> "idle"]
    /\ subscriber = AtSelect
    /\ memWorker = AtReceive

\* the rest of the system idle: no request, empty stream, seeded tables
InitRest ==
    /\ pc = [r \in Reqs |-> "idle"]
    /\ req = [r \in Reqs |-> NoRequest]
    /\ ctxDone = [r \in Reqs |-> FALSE]
    /\ pubErr = [r \in Reqs |-> "nil"]
    /\ resp = [r \in Reqs |-> "none"]
    /\ stream = << >>
    /\ lastDelivered = 0
    /\ pel = << >>
    /\ reading = [w \in Workers |-> << >>]
    /\ claimed = [w \in Workers |-> << >>]
    /\ ready = [w \in Workers |-> FALSE]
    /\ discarded = {}
    /\ cur = [w \in Workers |-> 0]
    /\ now = 0
    /\ tickets = [t \in Tickets |->
                    [total_stock |-> TicketStock, remaining_stock |-> TicketStock,
                     max_per_user |-> TicketLimit, price |-> Price, deleted |-> FALSE]]
    /\ orders = << >>
    /\ dispatches = {}
    /\ received = << >>
    /\ handled = << >>
    /\ tx = [c \in Cancellers |-> NoTx]
    /\ lastStore = NoStoreOp
    /\ creates = << >>
    /\ workerCtxDone = FALSE
    /\ sub = [w \in Workers |-> Subscribed]
    /\ InitChanQueue

InitInventory ==
    /\ info  = [t \in Tickets |-> EmptyHash]
    /\ users = [t \in Tickets |-> EmptyHash]
    /\ trace = << >>
    /\ InitRest
    /\ migrated = TRUE

CallWarmUp ==
    \E t \in Tickets, stock \in 0..MaxStock, limit \in 1..MaxLimit :
        /\ Len(trace) < MaxCalls
        /\ info' = [info EXCEPT ![t] = WarmUpInventory(info[t], stock, Price, limit)]
        /\ trace' = Append(trace, Call("warmup", 0, t, 0, 0, "nil",
                                       [stock |-> stock, limit |-> limit]))
        /\ UNCHANGED <<users, prepVars, queueVars, dbVars>>

CallDecreStock ==
    \E t \in Tickets, u \in Users, q \in Quantities :
        LET r == DecreStock(info[t], users[t], q, u, TRUE) IN
        /\ Len(trace) < MaxCalls
        /\ info'  = [info EXCEPT ![t] = r.info]
        /\ users' = [users EXCEPT ![t] = r.users]
        /\ trace' = Append(trace, Call("reserve", 0, t, u, q, r.err,
                                       [price |-> r.price]))
        /\ UNCHANGED <<prepVars, queueVars, dbVars>>

CallRollbackStock ==
    \E t \in Tickets, u \in Users, q \in Quantities :
        LET r == RollbackStock(info[t], users[t], q, u, TRUE) IN
        /\ Len(trace) < MaxCalls
        /\ info'  = [info EXCEPT ![t] = r.info]
        /\ users' = [users EXCEPT ![t] = r.users]
        /\ trace' = Append(trace, Call("rollback", 0, t, u, q, r.err,
                                       [price |-> 0]))
        /\ UNCHANGED <<prepVars, queueVars, dbVars>>

NextInventory == CallWarmUp \/ CallDecreStock \/ CallRollbackStock

SpecInventory == InitInventory /\ [][NextInventory]_vars

\* ------------------------------------------------------------------------
\* Reading the call trace
\* ------------------------------------------------------------------------
Idx == 1..Len(trace)
CallsOn(t) == {i \in Idx : trace[i].ticket = t}
IsReserve(i)  == trace[i].op = "reserve"
IsRollback(i) == trace[i].op = "rollback"
IsWarmup(i)   == trace[i].op = "warmup"
Granted(i)  == IsReserve(i) /\ trace[i].err = "nil"
Rejected(i) == IsReserve(i) /\ trace[i].err \in
                 {"ErrInsufficientStock", "ErrExceedsMaxPerUser", "ErrTicketNotFound"}
MinOf(S) == CHOOSE x \in S : \A y \in S : x <= y
Least(a, b) == IF a <= b THEN a ELSE b

\* the two hashes of call i's ticket right after call i returned
PostInfo(i) ==
    LET later == {j \in CallsOn(trace[i].ticket) : j > i} IN
    IF later = {} THEN info[trace[i].ticket] ELSE trace[MinOf(later)].preInfo
PostUsers(i) ==
    LET later == {j \in CallsOn(trace[i].ticket) : j > i} IN
    IF later = {} THEN users[trace[i].ticket] ELSE trace[MinOf(later)].preUsers

\* sum of the quantities granted to user u on ticket t by the first k calls
RECURSIVE SumGranted(_, _, _)
SumGranted(t, u, k) ==
    IF k = 0 THEN 0
    ELSE SumGranted(t, u, k - 1) +
         (IF Granted(k) /\ trace[k].ticket = t /\ trace[k].user = u
          THEN trace[k].qty ELSE 0)

\* ticket t was warmed once, before every other call on it
WarmedOnceFirst(t) ==
    /\ CallsOn(t) # {}
    /\ IsWarmup(MinOf(CallsOn(t)))
    /\ \A i \in CallsOn(t) : IsWarmup(i) => i = MinOf(CallsOn(t))
WarmupOf(t) == trace[MinOf(CallsOn(t))]

\* every rollback on t gives back a quantity an earlier successful reserve
\* of the same (user, quantity) granted and no rollback has given back yet
RollbacksOfGrantsOnly(t) ==
    \A k \in CallsOn(t) : IsRollback(k) =>
        Cardinality({i \in CallsOn(t) : i <= k /\ IsRollback(i)
                        /\ trace[i].user = trace[k].user /\ trace[i].qty = trace[k].qty})
        <= Cardinality({i \in CallsOn(t) : i < k /\ Granted(i)
                        /\ trace[i].user = trace[k].user /\ trace[i].qty = trace[k].qty})

\* ------------------------------------------------------------------------
\* C1 - No oversell.  A ticket warmed with stock S and then hit by N
\* reserves, all of one quantity q and none turned away by the per-user
\* limit: exactly min(N, S div q) of them succeed and the stock left is
\* S - successes * q.
\* ------------------------------------------------------------------------
ReservesOnlyAfterWarmup(t) ==
    /\ WarmedOnceFirst(t)
    /\ \A i \in CallsOn(t) : IsWarmup(i) \/ IsReserve(i)
SameQuantity(t) ==
    \A i, j \in CallsOn(t) : IsReserve(i) /\ IsReserve(j) => trace[i].qty = trace[j].qty
LimitNotBinding(t) ==
    \A i \in CallsOn(t) : IsReserve(i) => trace[i].err # "ErrExceedsMaxPerUser"

C1_NoOversell ==
    \A t \in Tickets :
        ReservesOnlyAfterWarmup(t) /\ SameQuantity(t) /\ LimitNotBinding(t) =>
            LET S == WarmupOf(t).arg.stock
                R == {i \in CallsOn(t) : IsReserve(i)}
                N == Cardinality(R)
                successes == Cardinality({i \in R : Granted(i)})
            IN  /\ info[t]["stock"] = S - successes * (IF R = {} THEN 0 ELSE trace[MinOf(R)].qty)
                /\ R # {} => successes = Least(N, S \div trace[MinOf(R)].qty)

\* two reserves competed for a stock that covers only one of them
C1_Witness ==
    \E t \in Tickets :
        /\ ReservesOnlyAfterWarmup(t) /\ SameQuantity(t) /\ LimitNotBinding(t)
        /\ \E i, j \in CallsOn(t) : Granted(i) /\ IsReserve(j)
                                     /\ trace[j].err = "ErrInsufficientStock"

\* ------------------------------------------------------------------------
\* C2 - Engine invariants.  After one warmup (stock >= 0, limit >= 1) and
\* any reserves and rollbacks of granted quantities, the stock is never
\* negative and no user's purchased count exceeds the limit.
\* ------------------------------------------------------------------------
C2_StockAndCapInvariant ==
    \A t \in Tickets :
        WarmedOnceFirst(t) /\ RollbacksOfGrantsOnly(t) =>
            /\ info[t]["stock"] >= 0
            /\ \A u \in Users : UserBought(users[t], u) <= info[t]["limit"]

\* a grant that used the whole limit was rolled back
C2_Witness ==
    \E t \in Tickets :
        /\ WarmedOnceFirst(t) /\ RollbacksOfGrantsOnly(t)
        /\ \E i, k \in CallsOn(t) :
              /\ Granted(i) /\ IsRollback(k) /\ i < k
              /\ trace[i].qty = WarmupOf(t).arg.limit

\* ------------------------------------------------------------------------
\* C3 - Per-user cap.  With reserves only, the quantities granted to one
\* user on one ticket never add up to more than the limit; and a reserve
\* the stock covers but the limit does not returns ErrExceedsMaxPerUser.
\* ------------------------------------------------------------------------
C3_PerUserCap ==
    /\ \A t \in Tickets : ReservesOnlyAfterWarmup(t) =>
          \A u \in Users : SumGranted(t, u, Len(trace)) <= WarmupOf(t).arg.limit
    /\ \A i \in Idx :
          ( /\ IsReserve(i)
            /\ {"stock", "price", "limit"} \subseteq DOMAIN trace[i].preInfo
            /\ trace[i].preInfo["stock"] >= trace[i].qty
            /\ UserBought(trace[i].preUsers, trace[i].user) + trace[i].qty
                  > trace[i].preInfo["limit"] )
          => trace[i].err = "ErrExceedsMaxPerUser"

\* a user who already holds tickets asks for more than the limit leaves
C3_Witness ==
    \E t \in Tickets :
        /\ ReservesOnlyAfterWarmup(t)
        /\ \E i, j \in CallsOn(t) :
              /\ i < j /\ Granted(i) /\ IsReserve(j)
              /\ trace[i].user = trace[j].user
              /\ trace[j].qty <= WarmupOf(t).arg.limit
              /\ trace[j].err = "ErrExceedsMaxPerUser"

\* ------------------------------------------------------------------------
\* C4 - A rejected reserve changes nothing: both hashes of the ticket are
\* after the call what they were before it; on a ticket never warmed the
\* answer is ErrTicketNotFound and both hashes stay empty.
\* ------------------------------------------------------------------------
C4_RejectedReserveIsNoOp ==
    \A i \in Idx :
        /\ Rejected(i) => PostInfo(i) = trace[i].preInfo
                          /\ PostUsers(i) = trace[i].preUsers
        /\ (IsReserve(i) /\ trace[i].preInfo = EmptyHash) =>
              /\ trace[i].err = "ErrTicketNotFound"
              /\ PostInfo(i) = EmptyHash
              /\ trace[i].preUsers = EmptyHash => PostUsers(i) = EmptyHash

\* one run saw a reserve on the unwarmed ticket and, after the warmup, a
\* reserve turned away by the limit
C4_Witness ==
    \E i, j \in Idx :
        /\ IsReserve(i) /\ trace[i].preInfo = EmptyHash /\ trace[i].preUsers = EmptyHash
        /\ IsReserve(j) /\ trace[j].err = "ErrExceedsMaxPerUser"
        /\ trace[j].preInfo["stock"] > 0

\* ------------------------------------------------------------------------
\* C5 - Reserve/Rollback neutrality.  A successful Reserve(t,q,u) directly
\* followed by Rollback(t,q,u) leaves the info hash (stock, price, limit)
\* and u's purchased count as they were before the reserve.
\* ------------------------------------------------------------------------
ReserveThenRollback(i) ==
    /\ i + 1 \in Idx
    /\ Granted(i) /\ IsRollback(i + 1) /\ trace[i + 1].err = "nil"
    /\ trace[i + 1].ticket = trace[i].ticket
    /\ trace[i + 1].user = trace[i].user
    /\ trace[i + 1].qty = trace[i].qty

C5_ReserveRollbackNeutral ==
    \A i \in Idx : ReserveThenRollback(i) =>
        /\ PostInfo(i + 1) = trace[i].preInfo
        /\ UserBought(PostUsers(i + 1), trace[i].user)
              = UserBought(trace[i].preUsers, trace[i].user)

C5_Witness == \E i \in Idx : ReserveThenRollback(i) /\ trace[i].qty = MaxQty

\* ------------------------------------------------------------------------
\* Order service: PrepareOrder
\* ------------------------------------------------------------------------
\* EventService.OpenForSale: every ticket of the event is warmed from its row
OpenForSale ==
    \E t \in Tickets :
        /\ Cardinality({i \in Idx : IsWarmup(i)}) < MaxOpens
        /\ info' = [info EXCEPT ![t] =
                      WarmUpInventory(info[t], tickets[t].total_stock,
                                      tickets[t].price, tickets[t].max_per_user)]
        /\ trace' = Append(trace, Call("warmup", 0, t, 0, 0, "nil",
                                       [stock |-> tickets[t].total_stock,
                                        limit |-> tickets[t].max_per_user]))
        /\ UNCHANGED <<users, prepVars, queueVars, dbVars>>

\* what PrepareOrder returns when DecreStock did not grant
PrepareReserveError(ok, err) ==
    IF err # "nil" THEN err ELSE "ErrInsufficientStock"

\* where PrepareOrder goes after DecreStock returned
PrepareAfterReserveAlwaysPublish(ok, err) == "publish"
PrepareAfterReserve(ok, err) ==
    IF err # "nil" \/ ~ok THEN "done" ELSE "publish"

\* the order PrepareOrder builds; the request id is a fresh uuid, here the
\* number of the request
NewOrder(r, rq) ==
    [request_id |-> r, user_id |-> rq.user, ticket_id |-> rq.ticket,
     quantity |-> rq.qty, total_price |-> rq.price * rq.qty, status |-> "pending"]

\* json.Marshal / json.Unmarshal of model.Order, field by field
Marshal(o) ==
    <<o.request_id, o.user_id, o.ticket_id, o.quantity, o.total_price, o.status>>
Unmarshal(j) ==
    [request_id |-> j[1], user_id |-> j[2], ticket_id |-> j[3],
     quantity |-> j[4], total_price |-> j[5], status |-> j[6]]

\* RedisStreamOrderQueueImpl.PublishOrder: XADD orders:stream * order <json>
PublishOrderOtherField(st, order, ctxIsDone, brokerUp) ==
    IF ctxIsDone THEN [err |-> "xadd: context canceled", stream |-> st]
    ELSE IF ~brokerUp THEN [err |-> "xadd: connection refused", stream |-> st]
    ELSE [err |-> "nil", stream |-> Append(st, [data |-> Marshal(order)])]
PublishOrder(st, order, ctxIsDone, brokerUp) ==
    IF ctxIsDone THEN [err |-> "xadd: context canceled", stream |-> st]
    ELSE IF ~brokerUp THEN [err |-> "xadd: connection refused", stream |-> st]
    ELSE [err |-> "nil", stream |-> Append(st, [order |-> Marshal(order)])]

\* the arguments of the compensating RollbackStock call
RollbackCallUnitQty(rq) == [ticket |-> rq.ticket, qty |-> 1, user |-> rq.user]
RollbackCall(rq) == [ticket |-> rq.ticket, qty |-> rq.qty, user |-> rq.user]

\* the context of the compensating call is context.Background(): never done
RollbackContextDoneAsCaller(callerDone) == callerDone
RollbackContextDone(callerDone) == FALSE

\* what PrepareOrder returns after a failed publish; the rollback's own
\* result is dropped
PublishFailureResultSurfacing(rollbackErr) ==
    IF rollbackErr # "nil" THEN rollbackErr ELSE "ErrInternalServerError"
PublishFailureResult(rollbackErr) == "ErrInternalServerError"

\* step 1 of PrepareOrder: DecreStock under the request context
PrepareReserve(r) ==
    /\ pc[r] = "idle"
    /\ r > 1 => pc[r - 1] # "idle"     \* requests are numbered as they arrive
    /\ \E u \in Users, t \in Tickets, q \in Quantities, up \in BOOLEAN :
          LET res == DecreStock(info[t], users[t], q, u, up /\ ~ctxDone[r]) IN
          /\ req' = [req EXCEPT ![r] = [user |-> u, ticket |-> t, qty |-> q,
                                        price |-> res.price]]
          /\ info'  = [info EXCEPT ![t] = res.info]
          /\ users' = [users EXCEPT ![t] = res.users]
          /\ trace' = Append(trace, Call("reserve", r, t, u, q, res.err,
                                         [price |-> res.price]))
          /\ pc' = [pc EXCEPT ![r] = PrepareAfterReserve(res.ok, res.err)]
          /\ resp' = [resp EXCEPT ![r] =
                        IF res.err # "nil" \/ ~res.ok
                        THEN PrepareReserveError(res.ok, res.err) ELSE @]
    /\ UNCHANGED <<ctxDone, pubErr, queueVars, dbVars>>

\* step 2: PublishOrder under the request context
PreparePublish(r) ==
    /\ pc[r] = "publish"
    /\ \E up \in BOOLEAN :
          LET p == PublishOrder(stream, NewOrder(r, req[r]), ctxDone[r], up) IN
          /\ stream' = p.stream
          /\ pubErr' = [pubErr EXCEPT ![r] = p.err]
          /\ pc' = [pc EXCEPT ![r] = IF p.err = "nil" THEN "done" ELSE "rollback"]
          /\ resp' = [resp EXCEPT ![r] = IF p.err = "nil" THEN "order" ELSE @]
    /\ UNCHANGED <<invVars, req, ctxDone, lastDelivered, pel, reading, claimed,
                   ready, discarded, cur, now, dbVars>>

\* step 3, after a failed publish: RollbackStock, then the error return
PrepareRollback(r) ==
    /\ pc[r] = "rollback"
    /\ \E up \in BOOLEAN :
          LET a == RollbackCall(req[r])
              res == RollbackStock(info[a.ticket], users[a.ticket], a.qty, a.user,
                                   up /\ ~RollbackContextDone(ctxDone[r]))
          IN
          /\ info'  = [info EXCEPT ![a.ticket] = res.info]
          /\ users' = [users EXCEPT ![a.ticket] = res.users]
          /\ trace' = Append(trace, Call("rollback", r, a.ticket, a.user, a.qty,
                                         res.err, [price |-> 0, up |-> up]))
          /\ resp' = [resp EXCEPT ![r] = PublishFailureResult(res.err)]
          /\ pc' = [pc EXCEPT ![r] = "done"]
    /\ UNCHANGED <<req, ctxDone, pubErr, queueVars, dbVars>>

\* the client of request r goes away: its request context is cancelled
CancelRequest(r) ==
    /\ pc[r] # "done"
    /\ r > 1 => pc[r - 1] # "idle"     \* the request has arrived
    /\ ~ctxDone[r]
    /\ ctxDone' = [ctxDone EXCEPT ![r] = TRUE]
    /\ UNCHANGED <<invVars, pc, req, pubErr, resp, queueVars, dbVars>>

\* PrepareOrder from call to return with nothing of its own ticket's
\* inventory or of the stream changing in between: the three steps in a row.
\* cancelAt says when the client goes away: never, before the call, or
\* between DecreStock and PublishOrder.
PrepareOrder(r) ==
    /\ pc[r] = "idle"
    /\ r > 1 => pc[r - 1] # "idle"
    /\ \E u \in Users, t \in Tickets, q \in Quantities,
          cancelAt \in {"never", "before", "reserved"},
          redisUp \in BOOLEAN, brokerUp \in BOOLEAN, redisUpLater \in BOOLEAN :
          LET res == DecreStock(info[t], users[t], q, u, redisUp /\ cancelAt # "before")
              rq  == [user |-> u, ticket |-> t, qty |-> q, price |-> res.price]
              e1  == Call("reserve", r, t, u, q, res.err, [price |-> res.price])
              go  == PrepareAfterReserve(res.ok, res.err) = "publish"
              p   == PublishOrder(stream, NewOrder(r, rq), cancelAt # "never", brokerUp)
              a   == RollbackCall(rq)
              rb  == RollbackStock(res.info, res.users, a.qty, a.user,
                                   redisUpLater /\ ~RollbackContextDone(cancelAt # "never"))
              e2  == CallAt("rollback", r, a.ticket, a.user, a.qty, rb.err,
                            [price |-> 0, up |-> redisUpLater], res.info, res.users)
          IN
          /\ req' = [req EXCEPT ![r] = rq]
          /\ ctxDone' = [ctxDone EXCEPT ![r] = (cancelAt # "never")]
          /\ pc' = [pc EXCEPT ![r] = "done"]
          /\ IF ~go
             THEN /\ info'  = [info EXCEPT ![t] = res.info]
                  /\ users' = [users EXCEPT ![t] = res.users]
                  /\ trace' = Append(trace, e1)
                  /\ resp' = [resp EXCEPT ![r] = PrepareReserveError(res.ok, res.err)]
                  /\ UNCHANGED <<pubErr, stream>>
             ELSE IF p.err = "nil"
             THEN /\ info'  = [info EXCEPT ![t] = res.info]
                  /\ users' = [users EXCEPT ![t] = res.users]
                  /\ trace' = Append(trace, e1)
                  /\ resp' = [resp EXCEPT ![r] = "order"]
                  /\ stream' = p.stream
                  /\ UNCHANGED pubErr
             ELSE /\ info'  = [info EXCEPT ![t] = rb.info]
                  /\ users' = [users EXCEPT ![t] = rb.users]
                  /\ trace' = Append(Append(trace, e1), e2)
                  /\ resp' = [resp EXCEPT ![r] = PublishFailureResult(rb.err)]
                  /\ pubErr' = [pubErr EXCEPT ![r] = p.err]
                  /\ UNCHANGED stream
    /\ UNCHANGED <<lastDelivered, pel, reading, claimed,
                   ready, discarded, cur, now, dbVars>>

\* ------------------------------------------------------------------------
\* Tables orders and tickets
\* ------------------------------------------------------------------------
\* the columns the INSERT of OrderRepositoryImpl.Create names
CreateColumns == {"user_id", "ticket_id", "quantity", "total_price", "status"}

\* the constraints of table orders on an inserted row.  Once migration 009
\* is applied (mig), request_id is NOT NULL and idx_orders_request_id is
\* unique; before it the table has neither the column nor the index
OrdersInsert(tbl, row, mig) ==
    IF mig /\ row.request_id = Null
    THEN [err |-> "null value in column request_id", orders |-> tbl]
    ELSE IF mig /\ \E i \in 1..Len(tbl) : tbl[i].request_id = row.request_id
    THEN [err |-> "duplicate key idx_orders_request_id", orders |-> tbl]
    ELSE [err |-> "nil", orders |-> Append(tbl, row)]

\* OrderRepositoryImpl.Create: a column the INSERT does not name is NULL.
\* Field envelope is not a column: it remembers which envelope the row was
\* written for
Create(tbl, order, mig) ==
    LET row == [id |-> Len(tbl) + 1,
                request_id |-> IF "request_id" \in CreateColumns
                               THEN order.request_id ELSE Null,
                user_id |-> order.user_id, ticket_id |-> order.ticket_id,
                quantity |-> order.quantity, total_price |-> order.total_price,
                status |-> order.status, deleted |-> FALSE,
                envelope |-> order.request_id]
        ins == OrdersInsert(tbl, row, mig)
    IN  IF ins.err # "nil"
        THEN [err |-> "failed to create order", cause |-> ins.err,
              order |-> row, orders |-> tbl]
        ELSE [err |-> "nil", cause |-> "nil", order |-> row, orders |-> ins.orders]

\* TicketRepositoryImpl.FindByID
FindByID(tk, id) ==
    IF id \in DOMAIN tk /\ ~tk[id].deleted
    THEN [err |-> "nil", id |-> id]
    ELSE [err |-> "ErrTicketNotFound", id |-> 0]

\* TicketRepositoryImpl.DecrementStock:
\* UPDATE ... SET remaining_stock = remaining_stock - $1
\*   WHERE id = $3 AND remaining_stock >= $1
DecrementStockNoPredicate(tk, id, quantity) ==
    IF id \in DOMAIN tk
    THEN [err |-> "nil",
          tickets |-> [tk EXCEPT ![id].remaining_stock = @ - quantity]]
    ELSE [err |-> "ErrInsufficientStock", tickets |-> tk]
DecrementStock(tk, id, quantity) ==
    IF id \in DOMAIN tk /\ tk[id].remaining_stock >= quantity
    THEN [err |-> "nil",
          tickets |-> [tk EXCEPT ![id].remaining_stock = @ - quantity]]
    ELSE [err |-> "ErrInsufficientStock", tickets |-> tk]

\* the CHECK constraints of table tickets
TicketsCheck(row) ==
    /\ row.remaining_stock >= 0
    /\ row.total_stock >= row.remaining_stock

\* TicketRepositoryImpl.IncrementStock:
\* UPDATE ... SET remaining_stock = remaining_stock + $1 WHERE id = $3
IncrementStockUnchecked(tk, id, quantity) ==
    IF id \notin DOMAIN tk THEN [err |-> "ErrTicketNotFound", tickets |-> tk]
    ELSE [err |-> "nil",
          tickets |-> [tk EXCEPT ![id].remaining_stock = @ + quantity]]
IncrementStock(tk, id, quantity) ==
    IF id \notin DOMAIN tk THEN [err |-> "ErrTicketNotFound", tickets |-> tk]
    ELSE LET row == [tk[id] EXCEPT !.remaining_stock = @ + quantity] IN
         IF ~TicketsCheck(row)
         THEN [err |-> "violates check constraint", tickets |-> tk]
         ELSE [err |-> "nil", tickets |-> [tk EXCEPT ![id] = row]]

\* TicketRepositoryImpl.AddStock:
\* UPDATE ... SET total_stock = total_stock + $1,
\*   remaining_stock = remaining_stock + $1 WHERE id = $3 AND deleted_at IS NULL
AddStock(tk, id, quantity) ==
    IF quantity <= 0 THEN [err |-> "ErrInvalidInput", tickets |-> tk]
    ELSE IF ~(id \in DOMAIN tk /\ ~tk[id].deleted)
    THEN [err |-> "ErrTicketNotFound", tickets |-> tk]
    ELSE LET row == [tk[id] EXCEPT !.total_stock = @ + quantity,
                                   !.remaining_stock = @ + quantity] IN
         IF ~TicketsCheck(row)
         THEN [err |-> "violates check constraint", tickets |-> tk]
         ELSE [err |-> "nil", tickets |-> [tk EXCEPT ![id] = row]]

\* OrderRepositoryImpl.UpdateStatusWithLock:
\* UPDATE orders SET status = $1 WHERE id = $3 RETURNING ...
UpdateStatusWithLock(tbl, id, status) ==
    IF id \notin 1..Len(tbl)
    THEN [err |-> "ErrOrderNotFound", order |-> NoRequest, orders |-> tbl]
    ELSE [err |-> "nil", order |-> [tbl[id] EXCEPT !.status = status],
          orders |-> [tbl EXCEPT ![id].status = status]]

\* OrderServiceImpl.ConfirmOrder / confirmOrderByID: one transaction
ConfirmOrderByID(tk, tbl, id, beginOK, commitOK) ==
    IF ~beginOK THEN [err |-> "begin failed", tickets |-> tk, orders |-> tbl]
    ELSE LET u == UpdateStatusWithLock(tbl, id, "confirmed") IN
    IF u.err # "nil" THEN [err |-> u.err, tickets |-> tk, orders |-> tbl]
    ELSE IF ~commitOK THEN [err |-> "commit failed", tickets |-> tk, orders |-> tbl]
    ELSE [err |-> "nil", tickets |-> tk, orders |-> u.orders]

\* OrderServiceImpl.CancelOrder / cancelOrderByID: one transaction
CancelOrderByIDNoTransaction(tk, tbl, id, beginOK, commitOK) ==
    IF ~beginOK THEN [err |-> "begin failed", tickets |-> tk, orders |-> tbl]
    ELSE LET u == UpdateStatusWithLock(tbl, id, "cancelled") IN
    IF u.err # "nil" THEN [err |-> u.err, tickets |-> tk, orders |-> tbl]
    ELSE LET i == IncrementStock(tk, u.order.ticket_id, u.order.quantity) IN
    IF i.err # "nil" THEN [err |-> i.err, tickets |-> tk, orders |-> u.orders]
    ELSE IF ~commitOK
    THEN [err |-> "commit failed", tickets |-> i.tickets, orders |-> u.orders]
    ELSE [err |-> "nil", tickets |-> i.tickets, orders |-> u.orders]
CancelOrderByID(tk, tbl, id, beginOK, commitOK) ==
    IF ~beginOK THEN [err |-> "begin failed", tickets |-> tk, orders |-> tbl]
    ELSE LET u == UpdateStatusWithLock(tbl, id, "cancelled") IN
    IF u.err # "nil" THEN [err |-> u.err, tickets |-> tk, orders |-> tbl]
    ELSE LET i == IncrementStock(tk, u.order.ticket_id, u.order.quantity) IN
    IF i.err # "nil" THEN [err |-> i.err, tickets |-> tk, orders |-> tbl]
    ELSE IF ~commitOK THEN [err |-> "commit failed", tickets |-> tk, orders |-> tbl]
    ELSE [err |-> "nil", tickets |-> i.tickets, orders |-> u.orders]

\* OrderServiceImpl.DispatchOrder: one transaction; anything but a commit
\* leaves both tables as they were
DispatchOrderNoTransaction(tk, tbl, order, mig, beginOK, commitOK) ==
    IF ~beginOK THEN [err |-> "begin failed", tickets |-> tk, orders |-> tbl]
    ELSE LET c == Create(tbl, order, mig) IN
    IF c.err # "nil" THEN [err |-> c.err, tickets |-> tk, orders |-> tbl]
    ELSE LET f == FindByID(tk, c.order.ticket_id) IN
    IF f.err # "nil" THEN [err |-> f.err, tickets |-> tk, orders |-> c.orders]
    ELSE LET d == DecrementStock(tk, f.id, c.order.quantity) IN
    IF d.err # "nil" THEN [err |-> d.err, tickets |-> tk, orders |-> c.orders]
    ELSE IF ~commitOK
    THEN [err |-> "commit failed", tickets |-> d.tickets, orders |-> c.orders]
    ELSE [err |-> "nil", tickets |-> d.tickets, orders |-> c.orders]
DispatchOrder(tk, tbl, order, mig, beginOK, commitOK) ==
    IF ~beginOK THEN [err |-> "begin failed", tickets |-> tk, orders |-> tbl]
    ELSE LET c == Create(tbl, order, mig) IN
    IF c.err # "nil" THEN [err |-> c.err, tickets |-> tk, orders |-> tbl]
    ELSE LET f == FindByID(tk, c.order.ticket_id) IN
    IF f.err # "nil" THEN [err |-> f.err, tickets |-> tk, orders |-> tbl]
    ELSE LET d == DecrementStock(tk, f.id, c.order.quantity) IN
    IF d.err # "nil" THEN [err |-> d.err, tickets |-> tk, orders |-> tbl]
    ELSE IF ~commitOK THEN [err |-> "commit failed", tickets |-> tk, orders |-> tbl]
    ELSE [err |-> "nil", tickets |-> d.tickets, orders |-> c.orders]

\* ------------------------------------------------------------------------
\* Redis Stream queue and the worker
\* ------------------------------------------------------------------------
\* Count of XREADGROUP
ReadCount == 10

Without(f, m) == [x \in (DOMAIN f) \ {m} |-> f[x]]
With(f, m, v) == [x \in (DOMAIN f) \cup {m} |-> IF x = m THEN v ELSE f[x]]
Bump(f, m) == With(f, m, IF m \in DOMAIN f THEN f[m] + 1 ELSE 1)
CountOf(f, m) == IF m \in DOMAIN f THEN f[m] ELSE 0

\* the entries of set S in id order
RECURSIVE InIdOrder(_)
InIdOrder(S) ==
    IF S = {} THEN << >>
    ELSE LET m == CHOOSE x \in S : \A y \in S : x <= y
         IN  <<m>> \o InIdOrder(S \ {m})

\* XACK
XAck(p, m) == Without(p, m)

\* getMessageRetryCount: the delivery count XPENDING reports for the entry,
\* 0 when the entry is not pending
GetMessageRetryCount(p, m) == IF m \in DOMAIN p THEN p[m].count ELSE 0

\* shouldProcessMessage for a claimed entry with delivery count n
ShouldProcess(n) == ~(n >= MaxRetryCount)

\* newDelivery: an entry with an order field that decodes becomes a Delivery
Deliverable(e) == "order" \in DOMAIN e

\* the closures of a Delivery
Ack(p, m) == XAck(p, m)
NackAlwaysXAck(p, m, requeue) == XAck(p, m)
Nack(p, m, requeue) == IF requeue THEN p ELSE XAck(p, m)
Answer(p, m, a) ==
    CASE a = "ack" -> Ack(p, m)
      [] a = "nack_requeue" -> Nack(p, m, TRUE)
      [] a = "nack_discard" -> Nack(p, m, FALSE)

\* readAndDeliver of consumer w, first half: XREADGROUP ">" puts the new
\* entries in the PEL under w with delivery count 1
ReadGroup(w) ==
    /\ reading[w] = << >>
    /\ lastDelivered < Len(stream)
    /\ LET last == IF Len(stream) < lastDelivered + ReadCount
                   THEN Len(stream) ELSE lastDelivered + ReadCount
           new == (lastDelivered + 1)..last
       IN /\ pel' = [m \in (DOMAIN pel) \cup new |->
                        IF m \in new
                        THEN [consumer |-> w, count |-> 1, at |-> now]
                        ELSE pel[m]]
          /\ lastDelivered' = last
          /\ reading' = [reading EXCEPT ![w] =
                           SelectSeq(InIdOrder(new),
                                     LAMBDA m : Deliverable(stream[m]))]
    /\ UNCHANGED <<invVars, prepVars, stream, claimed, ready, discarded,
                   cur, now, dbVars>>

\* readAndDeliver, second half: out is unbuffered, so the send of the next
\* entry read completes when the subscriber receives it
ReadSend(w) ==
    /\ reading[w] # << >>
    /\ cur[w] = 0
    /\ cur' = [cur EXCEPT ![w] = Head(reading[w])]
    /\ reading' = [reading EXCEPT ![w] = Tail(@)]
    /\ received' = Bump(received, Head(reading[w]))
    /\ UNCHANGED <<invVars, prepVars, stream, lastDelivered, pel, claimed,
                   ready, discarded, now, tickets, orders, dispatches,
                   migrated, handled, tx, lastStore, creates, runVars>>

\* runAutoClaim of consumer w on a tick: XAUTOCLAIM moves the entries S it
\* finds idle long enough to w and counts a delivery of each
AutoClaim(w, S) ==
    /\ claimed[w] = << >>
    /\ S # {} /\ S \subseteq DOMAIN pel
    /\ pel' = [m \in DOMAIN pel |->
                 IF m \in S
                 THEN [consumer |-> w, count |-> pel[m].count + 1, at |-> now]
                 ELSE pel[m]]
    /\ claimed' = [claimed EXCEPT ![w] = InIdOrder(S)]
    /\ UNCHANGED <<invVars, prepVars, stream, lastDelivered, reading, ready,
                   discarded, cur, now, dbVars>>

\* runAutoClaim, the loop over the claimed entries: shouldProcessMessage
\* XACKs and skips a poison entry; any other entry becomes a Delivery
ClaimCheck(w) ==
    /\ claimed[w] # << >>
    /\ ~ready[w]
    /\ LET m == Head(claimed[w]) IN
       IF ~ShouldProcess(GetMessageRetryCount(pel, m))
       THEN /\ pel' = XAck(pel, m)
            /\ discarded' = discarded \cup {m}
            /\ claimed' = [claimed EXCEPT ![w] = Tail(@)]
            /\ ready' = ready
       ELSE IF Deliverable(stream[m])
       THEN /\ ready' = [ready EXCEPT ![w] = TRUE]
            /\ UNCHANGED <<pel, discarded, claimed>>
       ELSE /\ claimed' = [claimed EXCEPT ![w] = Tail(@)]
            /\ UNCHANGED <<pel, discarded, ready>>
    /\ UNCHANGED <<invVars, prepVars, stream, lastDelivered, reading, cur,
                   now, dbVars>>

\* runAutoClaim, the send of the Delivery on the unbuffered channel
ClaimSend(w) ==
    /\ ready[w]
    /\ cur[w] = 0
    /\ cur' = [cur EXCEPT ![w] = Head(claimed[w])]
    /\ claimed' = [claimed EXCEPT ![w] = Tail(@)]
    /\ ready' = [ready EXCEPT ![w] = FALSE]
    /\ received' = Bump(received, Head(claimed[w]))
    /\ UNCHANGED <<invVars, prepVars, stream, lastDelivered, pel, reading,
                   discarded, now, tickets, orders, dispatches, migrated,
                   handled, tx, lastStore, creates, runVars>>

\* OrderWorker.Start, the answer to a Delivery
WorkerAnswerDiscard(err) == IF err # "nil" THEN "nack_discard" ELSE "ack"
WorkerAnswer(err) == IF err # "nil" THEN "nack_requeue" ELSE "ack"

\* what is remembered of the last loop body for entry m: how many bodies
\* ran for it (n), the answer given, when, and whether the entry was pending
\* right after it, whether some body so far XACKed it (settled), and what the
\* DispatchOrder of the body returned and did to the tables
NoDispatch == [dup |-> FALSE, inserted |-> 0, taken |-> 0, quantity |-> 0]
LoopBody(m, a, err, d) ==
    [n |-> IF m \in DOMAIN handled THEN handled[m].n + 1 ELSE 1,
     answer |-> a,
     pending |-> m \in DOMAIN Answer(pel, m, a),
     settled |-> \/ a # "nack_requeue"
                 \/ (m \in DOMAIN handled /\ handled[m].settled),
     at |-> now,
     err |-> err, dup |-> d.dup, inserted |-> d.inserted, taken |-> d.taken,
     quantity |-> d.quantity]

\* rows of tbl written for the envelope with request id r
RowsFor(tbl, r) == {i \in 1..Len(tbl) : tbl[i].envelope = r}

\* OrderWorker.Start, the loop body: DispatchOrder, then Ack or Nack(true)
WorkerDispatch(w) ==
    /\ cur[w] # 0
    /\ \E beginOK \in BOOLEAN, commitOK \in BOOLEAN :
          LET m == cur[w]
              order == Unmarshal(stream[m].order)
              d == DispatchOrder(tickets, orders, order, migrated,
                                 beginOK, commitOK)
              a == WorkerAnswer(d.err)
          IN
          /\ tickets' = d.tickets
          /\ orders' = d.orders
          /\ dispatches' = IF beginOK /\ commitOK
                           THEN dispatches \cup {m} ELSE dispatches
          /\ pel' = Answer(pel, m, a)
          /\ handled' = With(handled, m,
                LoopBody(m, a, d.err,
                         [dup |-> RowsFor(orders, order.request_id) # {},
                          inserted |-> Len(d.orders) - Len(orders),
                          taken |-> tickets[order.ticket_id].remaining_stock
                                    - d.tickets[order.ticket_id].remaining_stock,
                          quantity |-> order.quantity]))
    /\ cur' = [cur EXCEPT ![w] = 0]
    /\ UNCHANGED <<invVars, prepVars, stream, lastDelivered, reading, claimed,
                   ready, discarded, now, migrated, received, tx,
                   lastStore, creates, runVars>>

\* ------------------------------------------------------------------------
\* The queue driven directly, as the queue tests drive it: orders are
\* published to the stream and each subscriber answers its Deliveries
\* with Ack, Nack(true) or Nack(false)
\* ------------------------------------------------------------------------
Answers == {"ack", "nack_requeue", "nack_discard"}

\* the k-th order a test publishes, for quantity q of the ticket
TestOrder(k, q) == NewOrder(k, [user |-> 1, ticket |-> 1, qty |-> q, price |-> Price])

PublishQuantity(q) ==
    /\ Len(stream) < NumReqs
    /\ LET p == PublishOrder(stream, TestOrder(Len(stream) + 1, q), FALSE, TRUE)
       IN  stream' = p.stream
    /\ UNCHANGED <<invVars, prepVars, lastDelivered, pel, reading, claimed,
                   ready, discarded, cur, now, dbVars>>

\* the queue tests publish orders of quantity 1
Publish == PublishQuantity(1)

\* the subscriber of consumer w answers the Delivery it holds
SubscriberAnswer(w) ==
    /\ cur[w] # 0
    /\ \E a \in Answers :
          LET m == cur[w] IN
          /\ pel' = Answer(pel, m, a)
          /\ handled' = With(handled, m, LoopBody(m, a, "nil", NoDispatch))
    /\ cur' = [cur EXCEPT ![w] = 0]
    /\ UNCHANGED <<invVars, prepVars, stream, lastDelivered, reading, claimed,
                   ready, discarded, now, tickets, orders, dispatches,
                   migrated, received, tx, lastStore, creates, runVars>>

NextQueue ==
    \/ Publish
    \/ \E w \in Workers : ReadGroup(w)
    \/ \E w \in Workers : ReadSend(w)
    \/ \E w \in Workers : \E S \in SUBSET DOMAIN pel : AutoClaim(w, S)
    \/ \E w \in Workers : ClaimCheck(w)
    \/ \E w \in Workers : ClaimSend(w)
    \/ \E w \in Workers : SubscriberAnswer(w)

SpecQueue == InitInventory /\ [][NextQueue]_vars

\* the goroutines of every consumer keep running: the read loop, the
\* auto-claim loop (its ticker fires again and again, and XAUTOCLAIM takes
\* every entry idle long enough) and the subscriber's receive loop
ClaimOf(w, m) == \E S \in SUBSET DOMAIN pel : m \in S /\ AutoClaim(w, S)

QueueFairness ==
    \A w \in Workers :
        /\ WF_vars(ReadGroup(w))
        /\ WF_vars(ReadSend(w))
        /\ WF_vars(ClaimCheck(w))
        /\ WF_vars(ClaimSend(w))
        /\ WF_vars(SubscriberAnswer(w))
        /\ \A m \in Reqs : WF_vars(ClaimOf(w, m))

FairSpecQueue == SpecQueue /\ QueueFairness

\* ------------------------------------------------------------------------
\* The queue with the clock of the Redis server: an entry's idle time runs
\* from the XREADGROUP or XAUTOCLAIM that last handed it to a consumer, and
\* XAUTOCLAIM takes the entries idle for MinIdle or longer
\* ------------------------------------------------------------------------
Tick ==
    /\ now < MaxTime
    /\ now' = now + 1
    /\ UNCHANGED <<invVars, prepVars, stream, lastDelivered, pel, reading,
                   claimed, ready, discarded, cur, dbVars>>

IdleTime(m) == now - pel[m].at
IdleEntriesAny == DOMAIN pel
IdleEntries == {m \in DOMAIN pel : IdleTime(m) >= ClaimMinIdle}

TimedAutoClaim(w) == AutoClaim(w, IdleEntries)

NextQueueTimed ==
    \/ Publish
    \/ Tick
    \/ \E w \in Workers : ReadGroup(w)
    \/ \E w \in Workers : ReadSend(w)
    \/ \E w \in Workers : TimedAutoClaim(w)
    \/ \E w \in Workers : ClaimCheck(w)
    \/ \E w \in Workers : ClaimSend(w)
    \/ \E w \in Workers : SubscriberAnswer(w)

SpecQueueTimed == InitInventory /\ [][NextQueueTimed]_vars

\* ------------------------------------------------------------------------
\* The worker on the queue, as the worker test drives it: orders are
\* published to the stream and the worker dispatches each Delivery to the
\* tables, which have migration 009 applied or not yet
\* ------------------------------------------------------------------------
InitWorker ==
    /\ info  = [t \in Tickets |-> EmptyHash]
    /\ users = [t \in Tickets |-> EmptyHash]
    /\ trace = << >>
    /\ InitRest
    /\ migrated \in BOOLEAN

\* the one worker the test starts, on its own consumer
TestWorker == 1

NextWorker ==
    \/ \E q \in Quantities : PublishQuantity(q)
    \/ ReadGroup(TestWorker)
    \/ ReadSend(TestWorker)
    \/ \E S \in SUBSET DOMAIN pel : AutoClaim(TestWorker, S)
    \/ ClaimCheck(TestWorker)
    \/ ClaimSend(TestWorker)
    \/ WorkerDispatch(TestWorker)

SpecWorker == InitWorker /\ [][NextWorker]_vars

\* ------------------------------------------------------------------------
\* The tables driven directly, as the repository and service tests drive
\* them.  A repository operation runs in a transaction of its own that
\* commits at once, or in a transaction caller c leaves open: the rows c
\* wrote are locked, and what c wrote is not in the tables the others read
\* until c commits.  ConfirmOrder and CancelOrder are the calls by id;
\* ConfirmOrderByOrderID and CancelOrderByOrderID read the order and test
\* its status before they open their transaction
\* ------------------------------------------------------------------------
\* most a test adds to total_stock
MaxAdd == 1
\* most order rows a test writes
MaxOrders == 2
\* most Create calls a test makes
MaxCreates == 2
\* the id of no ticket, as in the NotFound cases of the repository tests
NoSuchTicket == 99999
TicketIds == Tickets \cup {NoSuchTicket}

CancelCalls == {"CancelOrder", "CancelOrderByOrderID"}
ConfirmCalls == {"ConfirmOrder", "ConfirmOrderByOrderID"}
TargetStatus(call) == IF call \in CancelCalls THEN "cancelled" ELSE "confirmed"

\* a row an open transaction has written is locked: the UPDATE of another
\* transaction on it waits for the commit or the rollback
OrderLocked(id) ==
    \E c \in Cancellers : tx[c].stage \in {"updated", "credited"} /\ tx[c].order = id
TicketLockedNever(t) == FALSE
TicketLocked(t) ==
    \E c \in Cancellers :
        /\ tx[c].stage \in {"credited", "decremented", "locked", "ordered",
                            "taken"}
        /\ tx[c].ticket = t

StoreOp(op, t, q, err) ==
    [op |-> op, by |-> 0, ticket |-> t, quantity |-> q, err |-> err,
     remaining_stock |-> IF t \in DOMAIN tickets
                         THEN tickets[t].remaining_stock ELSE 0,
     total_stock |-> IF t \in DOMAIN tickets THEN tickets[t].total_stock ELSE 0,
     order |-> 0, was |-> "none", status |-> "none", credited |-> 0]

\* a Confirm or Cancel call of caller c on order id that found status was
\* and returned err, leaving the tables tk and tbl
OrderOp(call, c, id, was, err, tk, tbl) ==
    LET t == orders[id].ticket_id IN
    [op |-> call, by |-> c, ticket |-> t, quantity |-> orders[id].quantity,
     err |-> err,
     remaining_stock |-> tickets[t].remaining_stock,
     total_stock |-> tickets[t].total_stock,
     order |-> id, was |-> was, status |-> tbl[id].status,
     credited |-> tk[t].remaining_stock - tickets[t].remaining_stock]

\* a variant in which a Cancel call that commits its credit also gives the
\* quantity back to the in-memory stock
StoreRestocksOnCancel ==
    /\ info' = [t \in Tickets |->
                  IF /\ "stock" \in DOMAIN info[t]
                     /\ \E c \in Cancellers :
                           /\ tx[c].stage = "credited" /\ tx'[c] = NoTx
                           /\ tx[c].ticket = t
                           /\ tickets'[t].remaining_stock
                                 > tickets[t].remaining_stock
                  THEN HIncrBy(info[t], "stock", 1)
                  ELSE info[t]]
    /\ UNCHANGED <<users, trace, prepVars, queueVars, dispatches, migrated,
                   received, handled, runVars>>
StoreUnchanged ==
    UNCHANGED <<invVars, prepVars, queueVars, dispatches, migrated, received,
                handled, runVars>>

StoreDecrementStock ==
    \E t \in Tickets, q \in Quantities :
        /\ ~TicketLocked(t)
        /\ LET d == DecrementStock(tickets, t, q) IN
           /\ tickets' = d.tickets
           /\ lastStore' = StoreOp("DecrementStock", t, q, d.err)
        /\ UNCHANGED <<orders, tx, creates>>
        /\ StoreUnchanged

StoreIncrementStock ==
    \E t \in Tickets, q \in Quantities :
        /\ ~TicketLocked(t)
        /\ LET i == IncrementStock(tickets, t, q) IN
           /\ tickets' = i.tickets
           /\ lastStore' = StoreOp("IncrementStock", t, q, i.err)
        /\ UNCHANGED <<orders, tx, creates>>
        /\ StoreUnchanged

StoreAddStock ==
    \E t \in Tickets, q \in 0..MaxAdd :
        /\ ~TicketLocked(t)
        /\ tickets[t].total_stock + q <= TicketStock + MaxAdd
        /\ LET a == AddStock(tickets, t, q) IN
           /\ tickets' = a.tickets
           /\ lastStore' = StoreOp("AddStock", t, q, a.err)
        /\ UNCHANGED <<orders, tx, creates>>
        /\ StoreUnchanged

StoreDispatchOrder ==
    /\ Len(orders) < MaxOrders
    /\ \E q \in Quantities, commitOK \in BOOLEAN :
          LET order == TestOrder(Len(orders) + 1, q)
              d == DispatchOrder(tickets, orders, order, migrated, TRUE, commitOK)
          IN
          /\ ~TicketLocked(order.ticket_id)
          /\ tickets' = d.tickets
          /\ orders' = d.orders
          /\ lastStore' = StoreOp("DispatchOrder", order.ticket_id, q, d.err)
    /\ UNCHANGED <<tx, creates>>
    /\ StoreUnchanged

\* DecrementStock in a transaction of caller c that stays open, on a ticket
\* that exists or not
TxDecrementStock(c) ==
    /\ tx[c] = NoTx
    /\ \E t \in TicketIds, q \in Quantities :
          /\ ~TicketLocked(t)
          /\ LET d == DecrementStock(tickets, t, q) IN
             /\ lastStore' = [StoreOp("DecrementStock", t, q, d.err)
                                EXCEPT !.by = c]
             /\ tx' = IF d.err # "nil" THEN tx
                      ELSE [tx EXCEPT ![c] =
                              [NoTx EXCEPT !.call = "DecrementStock",
                                           !.stage = "decremented",
                                           !.ticket = t, !.quantity = q]]
    /\ UNCHANGED <<tickets, orders, creates>>
    /\ StoreUnchanged

\* ... which c then commits or rolls back
TxDecrementEnd(c) ==
    /\ tx[c].stage = "decremented"
    /\ \E commit \in BOOLEAN :
          LET d == DecrementStock(tickets, tx[c].ticket, tx[c].quantity) IN
          /\ tickets' = IF commit THEN d.tickets ELSE tickets
          /\ lastStore' = [StoreOp(IF commit THEN "CommitDecrement"
                                             ELSE "RollbackDecrement",
                                   tx[c].ticket, tx[c].quantity, "nil")
                             EXCEPT !.by = c]
    /\ tx' = [tx EXCEPT ![c] = NoTx]
    /\ UNCHANGED <<orders, creates>>
    /\ StoreUnchanged

\* Create in a transaction of caller c that stays open.  With the unique
\* index, an insert waits while another open transaction holds an insert
\* of the same request_id
InsertPending(request_id) ==
    /\ migrated /\ request_id # Null
    /\ \E c \in Cancellers :
          tx[c].stage = "inserted" /\ tx[c].request_id = request_id

CreateCalls == LET RECURSIVE Sum(_)
                   Sum(S) == IF S = {} THEN 0
                             ELSE LET r == CHOOSE x \in S : TRUE
                                  IN Len(creates[r]) + Sum(S \ {r})
               IN Sum(DOMAIN creates)
               + Cardinality({c \in Cancellers : tx[c].stage = "inserted"})

Created(r, result) ==
    With(creates, r, Append(IF r \in DOMAIN creates THEN creates[r] ELSE << >>,
                            result))

TxCreate(c) ==
    /\ tx[c] = NoTx
    /\ CreateCalls < MaxCreates
    /\ Len(orders) < MaxOrders
    /\ \E r \in Reqs, q \in Quantities :
          LET k == Create(orders, TestOrder(r, q), migrated) IN
          /\ ~InsertPending(k.order.request_id)
          /\ IF k.err # "nil"
             THEN /\ creates' = Created(r, k.cause)
                  /\ lastStore' = [StoreOp("Create", k.order.ticket_id, q, k.err)
                                     EXCEPT !.by = c]
                  /\ tx' = tx
             ELSE /\ tx' = [tx EXCEPT ![c] =
                              [NoTx EXCEPT !.call = "Create", !.stage = "inserted",
                                           !.request_id = r, !.quantity = q]]
                  /\ UNCHANGED <<creates, lastStore>>
    /\ UNCHANGED <<tickets, orders>>
    /\ StoreUnchanged

TxCreateEnd(c) ==
    /\ tx[c].stage = "inserted"
    /\ \E commit \in BOOLEAN :
          LET k == Create(orders, TestOrder(tx[c].request_id, tx[c].quantity),
                          migrated)
          IN
          /\ orders' = IF commit THEN k.orders ELSE orders
          /\ creates' = Created(tx[c].request_id,
                                IF commit THEN "committed" ELSE "rolled back")
          /\ lastStore' = [StoreOp(IF commit THEN "CommitCreate"
                                             ELSE "RollbackCreate",
                                   k.order.ticket_id, tx[c].quantity, "nil")
                             EXCEPT !.by = c]
    /\ tx' = [tx EXCEPT ![c] = NoTx]
    /\ UNCHANGED tickets
    /\ StoreUnchanged

\* ConfirmOrderByOrderID and CancelOrderByOrderID of caller c, up to the
\* status test
OrderFind(c, call) ==
    /\ tx[c] = NoTx
    /\ \E id \in 1..Len(orders) :
          IF orders[id].deleted
          THEN /\ lastStore' = OrderOp(call, c, id, orders[id].status,
                                       "ErrOrderNotFound", tickets, orders)
               /\ tx' = tx
          ELSE IF orders[id].status # "pending"
          THEN /\ lastStore' = OrderOp(call, c, id, orders[id].status,
                                       "ErrInvalidOrderStatus", tickets, orders)
               /\ tx' = tx
          ELSE /\ tx' = [tx EXCEPT ![c] =
                           [NoTx EXCEPT !.call = call, !.stage = "found",
                                        !.order = id, !.was = "pending"]]
               /\ lastStore' = lastStore
    /\ UNCHANGED <<tickets, orders, creates>>
    /\ StoreUnchanged

CancelOrderFind(c) == OrderFind(c, "CancelOrderByOrderID")
ConfirmOrderFind(c) == OrderFind(c, "ConfirmOrderByOrderID")

\* BeginTx and UpdateStatusWithLock of call on order id, whose status the
\* call found to be was
OrderUpdateStatus(c, call, id, was) ==
    /\ ~OrderLocked(id)
    /\ LET u == UpdateStatusWithLock(orders, id, TargetStatus(call)) IN
       tx' = [tx EXCEPT ![c] =
                [NoTx EXCEPT !.call = call, !.stage = "updated", !.order = id,
                             !.was = was, !.ticket = u.order.ticket_id,
                             !.quantity = u.order.quantity]]
    /\ UNCHANGED <<tickets, orders, lastStore, creates>>
    /\ StoreUnchanged

\* ConfirmOrder and CancelOrder by id: no test of the status
OrderUpdateByID(c) ==
    /\ tx[c] = NoTx
    /\ \E call \in {"ConfirmOrder", "CancelOrder"}, id \in 1..Len(orders) :
          OrderUpdateStatus(c, call, id, orders[id].status)

\* confirmOrderByID and cancelOrderByID, after the status test
OrderUpdateFound(c) ==
    /\ tx[c].stage = "found"
    /\ OrderUpdateStatus(c, tx[c].call, tx[c].order, tx[c].was)

\* the IncrementStock of a Cancel call; on an error the call returns and
\* its deferred Rollback runs
CancelIncrementStock(c) ==
    /\ tx[c].stage = "updated"
    /\ tx[c].call \in CancelCalls
    /\ ~TicketLocked(tx[c].ticket)
    /\ LET i == IncrementStock(tickets, tx[c].ticket, tx[c].quantity)
           x == CancelOrderByID(tickets, orders, tx[c].order, TRUE, TRUE)
       IN  IF i.err # "nil"
           THEN /\ tickets' = x.tickets
                /\ orders' = x.orders
                /\ lastStore' = OrderOp(tx[c].call, c, tx[c].order, tx[c].was,
                                        x.err, x.tickets, x.orders)
                /\ tx' = [tx EXCEPT ![c] = NoTx]
           ELSE /\ tx' = [tx EXCEPT ![c].stage = "credited"]
                /\ UNCHANGED <<tickets, orders, lastStore>>
    /\ UNCHANGED creates
    /\ StoreUnchanged

\* the Commit of a Confirm or Cancel call
OrderCommit(c) ==
    /\ \/ tx[c].stage = "credited"
       \/ tx[c].stage = "updated" /\ tx[c].call \in ConfirmCalls
    /\ \E commitOK \in BOOLEAN :
          LET x == IF tx[c].call \in CancelCalls
                   THEN CancelOrderByID(tickets, orders, tx[c].order, TRUE, commitOK)
                   ELSE ConfirmOrderByID(tickets, orders, tx[c].order, TRUE, commitOK)
          IN
          /\ tickets' = x.tickets
          /\ orders' = x.orders
          /\ lastStore' = OrderOp(tx[c].call, c, tx[c].order, tx[c].was,
                                  x.err, x.tickets, x.orders)
    /\ tx' = [tx EXCEPT ![c] = NoTx]
    /\ UNCHANGED creates
    /\ StoreUnchanged

NextStore ==
    \/ StoreDecrementStock
    \/ StoreIncrementStock
    \/ StoreAddStock
    \/ StoreDispatchOrder
    \/ \E c \in Cancellers : TxDecrementStock(c)
    \/ \E c \in Cancellers : TxDecrementEnd(c)
    \/ \E c \in Cancellers : CancelOrderFind(c)
    \/ \E c \in Cancellers : OrderUpdateFound(c)
    \/ \E c \in Cancellers : CancelIncrementStock(c)
    \/ \E c \in Cancellers : OrderCommit(c)

SpecStore == InitWorker /\ [][NextStore]_vars

\* ------------------------------------------------------------------------
\* Create driven directly, as the repository test drives it: callers insert
\* orders, some with the request_id of an earlier one, and commit or roll
\* back
\* ------------------------------------------------------------------------
NextCreate ==
    \/ \E c \in Cancellers : TxCreate(c)
    \/ \E c \in Cancellers : TxCreateEnd(c)

SpecCreate == InitWorker /\ [][NextCreate]_vars

\* ------------------------------------------------------------------------
\* The order service driven directly, as the service tests drive it, on
\* pending orders the test helper inserted: Confirm and Cancel, by id and
\* by order id, from concurrent callers
\* ------------------------------------------------------------------------
\* createTestOrder: INSERT of a pending order with a fresh request_id
\* most orders a service test inserts
MaxTestOrders == 1

CreateTestOrder ==
    /\ Len(orders) < MaxTestOrders
    /\ \E q \in Quantities :
          LET o == TestOrder(Len(orders) + 1, q)
              row == [id |-> Len(orders) + 1, request_id |-> o.request_id,
                      user_id |-> o.user_id, ticket_id |-> o.ticket_id,
                      quantity |-> o.quantity, total_price |-> o.total_price,
                      status |-> "pending", deleted |-> FALSE,
                      envelope |-> o.request_id]
          IN  orders' = OrdersInsert(orders, row, migrated).orders
    /\ UNCHANGED <<tickets, tx, lastStore, creates>>
    /\ StoreUnchanged

NextOrders ==
    \/ CreateTestOrder
    \/ StoreDecrementStock
    \/ \E c \in Cancellers : CancelOrderFind(c)
    \/ \E c \in Cancellers : ConfirmOrderFind(c)
    \/ \E c \in Cancellers : OrderUpdateByID(c)
    \/ \E c \in Cancellers : OrderUpdateFound(c)
    \/ \E c \in Cancellers : CancelIncrementStock(c)
    \/ \E c \in Cancellers : OrderCommit(c)

SpecOrders == InitInventory /\ [][NextOrders]_vars

\* ------------------------------------------------------------------------
\* The whole pipeline
\* ------------------------------------------------------------------------
\* the admission path alone: requests against the inventory and the stream
NextPrepare ==
    \/ OpenForSale
    \/ \E r \in Reqs : PrepareReserve(r)
    \/ \E r \in Reqs : PreparePublish(r)
    \/ \E r \in Reqs : PrepareRollback(r)
    \/ \E r \in Reqs : CancelRequest(r)

SpecPrepare == InitInventory /\ [][NextPrepare]_vars

Init == InitInventory

\* the consumer of the one server process main starts
Server == 1

Next ==
    \/ OpenForSale
    \/ \E r \in Reqs : PrepareOrder(r)
    \/ ReadGroup(Server)
    \/ ReadSend(Server)
    \/ \E S \in SUBSET DOMAIN pel : AutoClaim(Server, S)
    \/ ClaimCheck(Server)
    \/ ClaimSend(Server)
    \/ WorkerDispatch(Server)

Spec == Init /\ [][Next]_vars

\* ------------------------------------------------------------------------
\* Reading a request's calls
\* ------------------------------------------------------------------------
ReserveBy(r)  == {i \in Idx : IsReserve(i) /\ trace[i].by = r}
RollbackBy(r) == {k \in Idx : IsRollback(k) /\ trace[k].by = r}
Returned(r) == pc[r] = "done"
PublishFailed(r) == pubErr[r] # "nil"
SameArgs(i, k) ==
    /\ trace[k].ticket = trace[i].ticket
    /\ trace[k].qty = trace[i].qty
    /\ trace[k].user = trace[i].user
\* the stream holds an envelope of request r
Published(r) ==
    \E m \in 1..Len(stream) : Unmarshal(stream[m].order).request_id = r
OrderRowsOf(r) == RowsFor(orders, r)
StockOf(h) == h["stock"]

\* ------------------------------------------------------------------------
\* C6 - Publish-failure compensation, as claimed: after a granted reserve
\* and a failed publish PrepareOrder calls RollbackStock with the same
\* (ticket, quantity, user); with no other inventory call in between, stock
\* and the user's counter are after the return what they were before the
\* call; no envelope and no order row exist for the request.
\* ------------------------------------------------------------------------
C6_AlwaysRestored ==
    \A r \in Reqs : Returned(r) /\ PublishFailed(r) =>
        /\ \E i \in ReserveBy(r), k \in RollbackBy(r) :
              /\ Granted(i) /\ i < k /\ SameArgs(i, k)
              /\ k = i + 1 =>
                    /\ StockOf(PostInfo(k)) = StockOf(trace[i].preInfo)
                    /\ UserBought(PostUsers(k), trace[i].user)
                          = UserBought(trace[i].preUsers, trace[i].user)
        /\ ~Published(r) /\ OrderRowsOf(r) = {}

\* C6, as the code has it: the compensating RollbackStock is called with the
\* same (ticket, quantity, user).  If its script ran, it gave back exactly
\* what the reserve took (so with no other call in between both hashes read
\* as before the call); if the call failed, it changed nothing and the
\* reservation stays.  Either way no envelope and no order row exist.
C6_CompensationWhenRollbackRuns ==
    \A r \in Reqs : Returned(r) /\ PublishFailed(r) =>
        /\ \E i \in ReserveBy(r), k \in RollbackBy(r) :
              /\ Granted(i) /\ i < k /\ SameArgs(i, k)
              /\ trace[i].ticket = req[r].ticket /\ trace[i].qty = req[r].qty
              /\ trace[i].user = req[r].user
              /\ trace[k].err = "nil" =>
                    /\ StockOf(PostInfo(k)) - StockOf(trace[k].preInfo)
                          = StockOf(trace[i].preInfo) - StockOf(PostInfo(i))
                    /\ UserBought(trace[k].preUsers, trace[k].user)
                          - UserBought(PostUsers(k), trace[k].user)
                          = UserBought(PostUsers(i), trace[i].user)
                            - UserBought(trace[i].preUsers, trace[i].user)
                    /\ k = i + 1 =>
                          /\ PostInfo(k) = trace[i].preInfo
                          /\ UserBought(PostUsers(k), trace[i].user)
                                = UserBought(trace[i].preUsers, trace[i].user)
              /\ trace[k].err # "nil" =>
                    /\ PostInfo(k) = trace[k].preInfo
                    /\ PostUsers(k) = trace[k].preUsers
        /\ ~Published(r) /\ OrderRowsOf(r) = {}

\* a reserve of the largest quantity was compensated while another request
\* reserved in between
C6_Witness ==
    \E r \in Reqs : \E i \in ReserveBy(r), k \in RollbackBy(r), j \in Idx :
        /\ Returned(r) /\ PublishFailed(r)
        /\ trace[i].qty = MaxQty /\ trace[k].err = "nil"
        /\ i < j /\ j < k /\ Granted(j)

\* ------------------------------------------------------------------------
\* C7 - Detached rollback.  When the request context is cancelled and the
\* publish fails, the compensating RollbackStock is still called, and the
\* cancellation is never why it fails: whenever the store answers, the
\* script runs and the reserved quantity is given back.
\* ------------------------------------------------------------------------
C7_RollbackIgnoresCancellation ==
    \A r \in Reqs : Returned(r) /\ PublishFailed(r) /\ ctxDone[r] =>
        \E k \in RollbackBy(r) :
            trace[k].arg.up =>
                /\ trace[k].err = "nil"
                /\ StockOf(PostInfo(k)) = StockOf(trace[k].preInfo) + req[r].qty
                /\ UserBought(PostUsers(k), req[r].user)
                      = UserBought(trace[k].preUsers, req[r].user) - req[r].qty

\* the client left after the reserve, the publish failed on the cancelled
\* context and the rollback ran
C7_Witness ==
    \E r \in Reqs : \E k \in RollbackBy(r) :
        /\ Returned(r) /\ ctxDone[r]
        /\ pubErr[r] = "xadd: context canceled"
        /\ trace[k].arg.up /\ trace[k].err = "nil"

\* ------------------------------------------------------------------------
\* C8 - After a failed publish PrepareOrder returns ErrInternalServerError
\* and no order, whether RollbackStock returned nil or an error.
\* ------------------------------------------------------------------------
C8_PublishFailureIsInternalError ==
    \A r \in Reqs : Returned(r) /\ PublishFailed(r) =>
        /\ resp[r] = "ErrInternalServerError"
        /\ ~Published(r)

\* the compensating rollback itself failed
C8_Witness ==
    \E r \in Reqs : \E k \in RollbackBy(r) :
        /\ Returned(r) /\ PublishFailed(r)
        /\ trace[k].err # "nil"
        /\ \E r2 \in Reqs : \E k2 \in RollbackBy(r2) :
              Returned(r2) /\ trace[k2].err = "nil"

\* ------------------------------------------------------------------------
\* C9 - A rejected reserve is returned as it is: PrepareOrder answers with
\* the error DecreStock gave, publishes nothing and calls no RollbackStock.
\* ------------------------------------------------------------------------
C9_RejectionSurfacedUnchanged ==
    \A r \in Reqs : \A i \in ReserveBy(r) : Rejected(i) /\ Returned(r) =>
        /\ resp[r] = trace[i].err
        /\ ~Published(r)
        /\ pubErr[r] = "nil"
        /\ RollbackBy(r) = {}

\* a user whose first request was admitted and published is turned away by
\* the per-user limit on the second
C9_Witness ==
    \E r1, r2 \in Reqs : \E j \in ReserveBy(r2) :
        /\ Returned(r1) /\ resp[r1] = "order" /\ Published(r1)
        /\ Returned(r2) /\ trace[j].err = "ErrExceedsMaxPerUser"
        /\ req[r1].user = req[r2].user

\* ------------------------------------------------------------------------
\* C10 - Idempotent dispatch.  Once DispatchOrder has run for an envelope
\* with the database up, however many times and on whichever workers,
\* table orders holds exactly one row with the envelope's request_id and
\* remaining_stock is total_stock less the quantity of every row, each
\* counted once.
\* ------------------------------------------------------------------------
RECURSIVE SumQuantity(_, _, _)
SumQuantity(tbl, t, k) ==
    IF k = 0 THEN 0
    ELSE SumQuantity(tbl, t, k - 1)
         + (IF tbl[k].ticket_id = t THEN tbl[k].quantity ELSE 0)

C10_IdempotentDispatch ==
    /\ \A m \in dispatches :
          Cardinality(OrderRowsOf(Unmarshal(stream[m].order).request_id)) = 1
    /\ \A t \in Tickets :
          tickets[t].remaining_stock
             = tickets[t].total_stock - SumQuantity(orders, t, Len(orders))

\* ------------------------------------------------------------------------
\* Reading the worker's loop bodies
\* ------------------------------------------------------------------------
Entries == 1..Len(stream)
Handled == DOMAIN handled
\* the transaction of the last DispatchOrder for entry m began and, if it
\* got that far, committed
DatabaseAnswered(m) == handled[m].err \notin {"begin failed", "commit failed"}

\* ------------------------------------------------------------------------
\* C11 - Duplicate detection: a DispatchOrder for an envelope that already
\* has an order row treats the unique-index failure as success: it returns
\* no error and inserts nothing, so the Worker Acks and the entry leaves
\* the pending set.
\* ------------------------------------------------------------------------
C11_DuplicateIsSuccess ==
    \A m \in Handled : handled[m].dup /\ DatabaseAnswered(m) =>
        /\ handled[m].err = "nil"
        /\ handled[m].inserted = 0
        /\ handled[m].answer = "ack"
        /\ ~handled[m].pending

\* ------------------------------------------------------------------------
\* C12 - At-least-once delivery: with the consumers' loops running, every
\* envelope published to the stream is eventually handed to a subscriber
\* as a Delivery.
\* ------------------------------------------------------------------------
C12_AtLeastOnce ==
    \A k \in Reqs : (Len(stream) >= k) ~> (CountOf(received, k) >= 1)

\* both envelopes were published and each was handed to a subscriber
C12_Witness ==
    /\ Len(stream) = NumReqs
    /\ \A k \in Reqs : CountOf(received, k) >= 1

\* ------------------------------------------------------------------------
\* Reading the queue
\* ------------------------------------------------------------------------
Deliveries(m) == CountOf(received, m)
\* a subscriber has XACKed entry m with Ack or Nack(false)
Settled(m) == m \in Handled /\ handled[m].settled
\* every Delivery of entry m so far was answered with Nack(true)
AlwaysRequeued(m) == ~Settled(m)
\* consumer w hands a Delivery of entry m to its subscriber in this step
Delivers(w, m) == cur[w] # m /\ cur'[w] = m
\* shouldProcessMessage XACKs entry m as poison in this step
Discards(m) == m \notin discarded /\ m \in discarded'

\* ------------------------------------------------------------------------
\* C13 - Poison discard: a message whose every Delivery is answered with
\* Nack(true) is delivered at most max_retry_count times, and once it has
\* been force-acknowledged as poison no consumer delivers it again.
\* ------------------------------------------------------------------------
C13_PoisonDiscardIsFinal ==
    [][\A m \in Entries :
          /\ AlwaysRequeued(m)' => Deliveries(m)' <= MaxRetryCount
          /\ m \in discarded => \A w \in Workers : ~Delivers(w, m)]_vars

\* ------------------------------------------------------------------------
\* C14 - The queue discards a message only after max_retry_count full
\* redelivery cycles: when it is force-acknowledged it has been reclaimed
\* max_retry_count times (the reclaim that finds it poison included).
\* ------------------------------------------------------------------------
C14_DiscardAfterMaxCycles ==
    [][\A m \in Entries : Discards(m) =>
          pel[m].count - 1 >= MaxRetryCount]_vars

\* ------------------------------------------------------------------------
\* C15 - Redelivery delay, as claimed: after a Nack(true) the next Delivery
\* of the message comes no sooner than claim_min_idle after that Nack,
\* whatever time the subscriber spent on the Delivery before.
\* ------------------------------------------------------------------------
LastNackRequeue(m) == m \in Handled /\ handled[m].answer = "nack_requeue"

Reclaimed(m) == m \in DOMAIN pel /\ m \in DOMAIN pel' /\ pel'[m].count > pel[m].count

InReadLoop(m) == \E w \in Workers : \E i \in 1..Len(reading[w]) : reading[w][i] = m
HasBudget(m) == m \in DOMAIN pel /\ ShouldProcess(pel[m].count + 1)
LeavesPending(m) == m \in DOMAIN pel /\ m \notin DOMAIN pel'
SettledNow(m) == handled' # handled /\ m \in DOMAIN handled' /\ handled'[m].answer # "nack_requeue"

C17_SettledIsTerminal ==
    [][\A m \in Entries : Settled(m) =>
          /\ m \notin DOMAIN pel /\ m \notin DOMAIN pel'
          /\ \A w \in Workers : ~Delivers(w, m)]_vars

\* ------------------------------------------------------------------------
\* C18 - Worker protocol: every Delivery the worker receives gets one loop
\* body, which calls DispatchOrder once and then answers with Ack if it
\* returned no error and with Nack(true) if it returned one, whatever the
\* number of earlier Deliveries of the entry; it never answers Nack(false).
\* ------------------------------------------------------------------------
Bodies(m) == IF m \in Handled THEN handled[m].n ELSE 0
InHand(m) == Cardinality({w \in Workers : cur[w] = m})

C18_WorkerProtocol ==
    \A m \in Entries :
        /\ Deliveries(m) = Bodies(m) + InHand(m)
        /\ m \in Handled =>
              /\ handled[m].answer = IF handled[m].err = "nil"
                                     THEN "ack" ELSE "nack_requeue"
              /\ handled[m].answer = "ack" => ~handled[m].pending

\* one entry was dispatched and Acked, the other failed twice and was
\* answered with Nack(true) both times
C18_Witness ==
    \E m \in Entries, k \in Entries :
        /\ m \in Handled /\ handled[m].answer = "ack" /\ ~handled[m].pending
        /\ k \in Handled /\ handled[k].answer = "nack_requeue"
        /\ handled[k].n = 2 /\ handled[k].pending

\* ------------------------------------------------------------------------
\* C19 - DispatchOrder is all-or-nothing: a call either inserts one order
\* row and takes the order's quantity from remaining_stock, and returns no
\* error, or does neither and returns the error to the Worker (which then
\* answers Nack(true)); so remaining_stock is total_stock less the
\* quantities of the order rows.
\* ------------------------------------------------------------------------
C19_AllOrNothing ==
    /\ \A m \in Handled :
          /\ handled[m].err = "nil" =>
                handled[m].inserted = 1 /\ handled[m].taken = handled[m].quantity
          /\ handled[m].err # "nil" =>
                /\ handled[m].inserted = 0 /\ handled[m].taken = 0
                /\ handled[m].answer = "nack_requeue"
    /\ \A t \in Tickets :
          tickets[t].remaining_stock
             = tickets[t].total_stock - SumQuantity(orders, t, Len(orders))

\* one DispatchOrder committed and another failed on ErrInsufficientStock
C19_Witness ==
    /\ \E m \in Handled : handled[m].err = "ErrInsufficientStock"
    /\ \E m \in Handled : handled[m].err = "nil" /\ handled[m].inserted = 1
    /\ Len(orders) >= 1
    /\ \E t \in Tickets : tickets[t].remaining_stock < MaxQty

\* ------------------------------------------------------------------------
\* C20 - Under every interleaving of DecrementStock, IncrementStock,
\* AddStock, DispatchOrder and CancelOrder the tickets table keeps
\* 0 <= remaining_stock <= total_stock in every committed state, and an
\* IncrementStock that would take remaining_stock above total_stock fails
\* and changes nothing.
\* ------------------------------------------------------------------------
WouldExceed(o) == o.remaining_stock + o.quantity > o.total_stock

C20_StockWithinBounds ==
    /\ \A t \in Tickets :
          /\ 0 <= tickets[t].remaining_stock
          /\ tickets[t].remaining_stock <= tickets[t].total_stock
    /\ lastStore.op \in {"IncrementStock"} \cup CancelCalls
       /\ WouldExceed(lastStore) =>
          /\ lastStore.err # "nil"
          /\ tickets[lastStore.ticket].remaining_stock = lastStore.remaining_stock
          /\ tickets[lastStore.ticket].total_stock = lastStore.total_stock

\* an IncrementStock was refused on a ticket that had sold part of its stock
C20_Witness ==
    /\ lastStore.op = "IncrementStock" /\ WouldExceed(lastStore)
    /\ lastStore.remaining_stock < lastStore.total_stock
    /\ lastStore.total_stock > TicketStock
    /\ orders # << >>

\* ------------------------------------------------------------------------
\* C21 - DecrementStock is one conditional update: it returns no error and
\* takes the quantity from remaining_stock exactly when the row exists with
\* remaining_stock >= quantity at the update; otherwise it returns
\* ErrInsufficientStock and changes no row.  No committed remaining_stock,
\* and none a transaction still open has written, is below 0.
\* ------------------------------------------------------------------------
Enough(o) ==
    o.ticket \in DOMAIN tickets /\ o.remaining_stock >= o.quantity

C21_DecrementStockConditional ==
    /\ \A t \in Tickets : tickets[t].remaining_stock >= 0
    /\ \A c \in Cancellers : tx[c].stage = "decremented" =>
          tickets[tx[c].ticket].remaining_stock - tx[c].quantity >= 0
    /\ lastStore.op = "DecrementStock" =>
          /\ (lastStore.err = "nil") <=> Enough(lastStore)
          /\ ~Enough(lastStore) =>
                /\ lastStore.err = "ErrInsufficientStock"
                /\ lastStore.ticket \in DOMAIN tickets =>
                      tickets[lastStore.ticket].remaining_stock
                         = lastStore.remaining_stock
          /\ Enough(lastStore) /\ lastStore.by = 0 =>
                tickets[lastStore.ticket].remaining_stock
                   = lastStore.remaining_stock - lastStore.quantity
          /\ Enough(lastStore) /\ lastStore.by # 0 =>
                /\ tx[lastStore.by].stage = "decremented"
                /\ tx[lastStore.by].quantity = lastStore.quantity
                /\ tickets[lastStore.ticket].remaining_stock
                      = lastStore.remaining_stock
    /\ lastStore.op = "CommitDecrement" =>
          tickets[lastStore.ticket].remaining_stock
             = lastStore.remaining_stock - lastStore.quantity
    /\ lastStore.op = "RollbackDecrement" =>
          tickets[lastStore.ticket].remaining_stock = lastStore.remaining_stock

\* a caller's DecrementStock found stock left, but less than it asked for,
\* while the other caller has a transaction open
C21_Witness ==
    /\ lastStore.op = "DecrementStock" /\ lastStore.by # 0
    /\ lastStore.err = "ErrInsufficientStock"
    /\ lastStore.ticket \in Tickets
    /\ lastStore.remaining_stock > 0
    /\ \E c \in Cancellers : c # lastStore.by /\ tx[c].stage = "updated"

\* ------------------------------------------------------------------------
\* C22 - CancelOrder is atomic: in every step of a Cancel call either the
\* call commits, and the tables then show the order cancelled together
\* with its quantity credited to remaining_stock, or the tables stay as
\* they were - while the transaction is open, when IncrementStock fails and
\* when the commit fails.
\* ------------------------------------------------------------------------
CancelStep(c) ==
    /\ tx'[c] # tx[c]
    /\ tx[c].call \in CancelCalls \/ tx'[c].call \in CancelCalls

CancelCommitted(c) ==
    /\ tx[c].stage = "credited" /\ tx'[c] = NoTx
    /\ lastStore'.err = "nil"

C22_CancelAtomic ==
    [][\A c \in Cancellers : CancelStep(c) =>
          IF CancelCommitted(c)
          THEN /\ orders'[tx[c].order].status = "cancelled"
               /\ tickets'[tx[c].ticket].remaining_stock
                     = tickets[tx[c].ticket].remaining_stock + tx[c].quantity
          ELSE orders' = orders /\ tickets' = tickets]_vars

\* a Cancel call whose IncrementStock failed on the check constraint
\* returned the error and left the order as it was
C22_Witness ==
    /\ lastStore.op \in CancelCalls
    /\ lastStore.err = "violates check constraint"
    /\ lastStore.was = "pending" /\ lastStore.status = "pending"
    /\ orders[lastStore.order].status = "pending"
    /\ lastStore.credited = 0

\* ------------------------------------------------------------------------
\* C23 - A Confirm or Cancel call on an order whose status is cancelled
\* returns ErrInvalidOrderStatus and leaves the order's status and the
\* ticket's remaining_stock as they were (the database answering and the
\* tickets table's CHECK not stopping the call).
\* ------------------------------------------------------------------------
C23_CancelledIsRefused ==
    /\ lastStore.op \in CancelCalls \cup ConfirmCalls
    /\ lastStore.was = "cancelled"
    /\ lastStore.err \notin {"commit failed", "violates check constraint"}
    => /\ lastStore.err = "ErrInvalidOrderStatus"
       /\ lastStore.status = "cancelled"
       /\ lastStore.credited = 0

\* ------------------------------------------------------------------------
\* C24 - A Cancel call on a confirmed order succeeds: it returns no error,
\* the order's status becomes cancelled and remaining_stock grows by the
\* order's quantity, once (the database answering and the credit fitting
\* under total_stock).
\* ------------------------------------------------------------------------
C24_CancelConfirmedSucceeds ==
    /\ lastStore.op \in CancelCalls
    /\ lastStore.was = "confirmed"
    /\ lastStore.err \notin {"commit failed", "violates check constraint"}
    => /\ lastStore.err = "nil"
       /\ lastStore.status = "cancelled"
       /\ lastStore.credited = lastStore.quantity

\* ------------------------------------------------------------------------
\* C25 - Whatever Confirm and Cancel calls are made, the status of an order
\* row changes only as OrderStatus.CanTransitionTo allows: pending to
\* confirmed, pending to cancelled, confirmed to cancelled; a cancelled
\* order stays cancelled.
\* ------------------------------------------------------------------------
CanTransitionTo(s, target) ==
    CASE s = "pending" -> target \in {"confirmed", "cancelled"}
      [] s = "confirmed" -> target \in {"cancelled"}
      [] s = "cancelled" -> FALSE
      [] OTHER -> FALSE

C25_StatusTransitions ==
    [][\A id \in 1..Len(orders) :
          orders'[id].status # orders[id].status =>
             CanTransitionTo(orders[id].status, orders'[id].status)]_vars

\* ------------------------------------------------------------------------
\* C26 - Of the Create calls made with one request_id, in sequential or
\* overlapping transactions, at most one commits and at most one row is
\* persisted; every other call that is not rolled back by its caller fails,
\* after that commit, with the unique-index error on request_id.
\* ------------------------------------------------------------------------
Committed(r) == {i \in 1..Len(creates[r]) : creates[r][i] = "committed"}

C26_UniqueRequestID ==
    \A r \in DOMAIN creates :
       /\ Cardinality(Committed(r)) <= 1
       /\ Cardinality({i \in 1..Len(orders) : orders[i].envelope = r}) <= 1
       /\ \A i \in 1..Len(creates[r]) :
             creates[r][i] \notin {"committed", "rolled back"} =>
                /\ creates[r][i] = "duplicate key idx_orders_request_id"
                /\ \E j \in Committed(r) : j < i

\* ------------------------------------------------------------------------
\* The whole pipeline as the integration tests run it, on an orders table
\* with migration 009 applied or not yet
\* ------------------------------------------------------------------------
SpecPipeline == InitWorker /\ [][Next]_vars

\* the worker has drained the queue: nothing unread, nothing pending,
\* nothing held by the consumer or its worker
Drained ==
    /\ lastDelivered = Len(stream)
    /\ DOMAIN pel = {}
    /\ reading[Server] = << >> /\ claimed[Server] = << >>
    /\ cur[Server] = 0
\* the ticket was warmed once, before any request, from its row
WarmedFirst ==
    /\ Len(trace) >= 1 /\ IsWarmup(1)
    /\ Cardinality({i \in Idx : IsWarmup(i)}) = 1
\* every request was answered, none with a publish or store failure
AllPublished ==
    \A r \in Reqs : resp[r] \in {"order", "ErrInsufficientStock"}
\* loop bodies the worker ran; each DispatchOrder that succeeds inserts
\* one row and a failed one none
LoopBodies ==
    LET RECURSIVE Sum(_)
        Sum(S) == IF S = {} THEN 0
                  ELSE LET m == CHOOSE x \in S : TRUE
                       IN handled[m].n + Sum(S \ {m})
    IN Sum(DOMAIN handled)
AllDispatched == Len(orders) = LoopBodies
Successes == {r \in Reqs : resp[r] = "order"}

\* ------------------------------------------------------------------------
\* C27 - End-to-end convergence: the ticket warmed from its row before any
\* request, every publish and every dispatch succeeding: once the worker
\* has drained the queue, the orders table has as many rows as PrepareOrder
\* gave successful responses and the row's remaining_stock equals the
\* in-memory stock.
\* ------------------------------------------------------------------------
C27_Convergence ==
    WarmedFirst /\ AllPublished /\ AllDispatched /\ Drained =>
       /\ Len(orders) = Cardinality(Successes)
       /\ \A t \in Tickets : tickets[t].remaining_stock = StockOf(info[t])

\* ------------------------------------------------------------------------
\* Shutdown: main cancels the worker's scope.  The consumer of the server
\* with its three goroutines (read loop, auto-claim loop, worker), each
\* step where the code stands; DispatchOrder in its steps BeginTx, the
\* statements up to Commit, and the worker's Ack
\* ------------------------------------------------------------------------
\* a panic in any goroutine ends the process
Panicked == \E w \in Workers : sub[w].autoClaim = "panicked"
Running(w, g) == ~Panicked /\ sub[w][g] = "running"
\* the worker is at its receive: for msg := range msgs
Receiving(w) == Running(w, "worker") /\ cur[w] = 0

\* main: workerCancel()
WorkerCancel ==
    /\ ~workerCtxDone /\ ~Panicked
    /\ workerCtxDone' = TRUE
    /\ sub' = [w \in Workers |->
                 [sub[w] EXCEPT !.atCancel = sub[w].body # "none"]]
    /\ UNCHANGED <<invVars, prepVars, queueVars, tickets, orders, dispatches,
                   migrated, received, handled, tx, lastStore, creates,
                   memVars>>

\* readAndDeliver; XREADGROUP fails on a cancelled context
RunReadGroup(w) == Running(w, "readLoop") /\ ~workerCtxDone /\ ReadGroup(w)
\* a read loop waiting at its send is woken by the cancellation
RunReadSend(w) ==
    /\ Running(w, "readLoop") /\ ~workerCtxDone /\ Receiving(w)
    /\ ReadSend(w)
\* runReadLoop returns on ctx.Done, from its loop or from its send, and the
\* goroutine of SubscribeOrders closes out
ReadLoopReturn(w) ==
    /\ Running(w, "readLoop") /\ workerCtxDone
    /\ sub' = [sub EXCEPT ![w].readLoop = "returned", ![w].out = "closed"]
    /\ reading' = [reading EXCEPT ![w] = << >>]
    /\ UNCHANGED <<invVars, prepVars, stream, lastDelivered, pel, claimed,
                   ready, discarded, cur, now, tickets, orders, dispatches,
                   migrated, received, handled, tx, lastStore, creates,
                   workerCtxDone, memVars>>

\* runAutoClaim; XAUTOCLAIM fails on a cancelled context
RunAutoClaim(w, S) ==
    Running(w, "autoClaim") /\ ~workerCtxDone /\ AutoClaim(w, S)
RunClaimCheck(w) ==
    Running(w, "autoClaim") /\ ~workerCtxDone /\ ClaimCheck(w)
\* shouldProcessMessage after the cancellation: getMessageRetryCount fails,
\* which counts as "process"; the loop goes on to newDelivery and the send
ClaimCheckCancelled(w) ==
    /\ Running(w, "autoClaim") /\ workerCtxDone
    /\ claimed[w] # << >> /\ ~ready[w]
    /\ IF Deliverable(stream[Head(claimed[w])])
       THEN /\ ready' = [ready EXCEPT ![w] = TRUE]
            /\ sub' = [sub EXCEPT ![w].late = TRUE]
            /\ UNCHANGED claimed
       ELSE /\ claimed' = [claimed EXCEPT ![w] = Tail(@)]
            /\ UNCHANGED <<ready, sub>>
    /\ UNCHANGED <<invVars, prepVars, stream, lastDelivered, pel, reading,
                   discarded, cur, now, tickets, orders, dispatches,
                   migrated, received, handled, tx, lastStore, creates,
                   workerCtxDone, memVars>>
\* the send: a loop that waits at it is woken by the cancellation; a loop
\* that comes to it later finds ctx.Done ready and may still send if the
\* worker is receiving
RunClaimSend(w) ==
    /\ Running(w, "autoClaim") /\ sub[w].out = "open" /\ Receiving(w)
    /\ workerCtxDone => sub[w].late
    /\ ClaimSend(w)
\* select { case out <- *d: case <-ctx.Done(): } on the closed channel with
\* the context cancelled: both cases are ready and one is chosen at random;
\* the send on a closed channel panics
AutoClaimPanic(w) ==
    /\ Running(w, "autoClaim") /\ workerCtxDone
    /\ ready[w] /\ sub[w].late /\ sub[w].out = "closed"
    /\ sub' = [sub EXCEPT ![w].autoClaim = "panicked"]
    /\ UNCHANGED <<invVars, prepVars, queueVars, tickets, orders, dispatches,
                   migrated, received, handled, tx, lastStore, creates,
                   workerCtxDone, memVars>>
\* runAutoClaim returns on ctx.Done, from its loop or from its send
AutoClaimReturn(w) ==
    /\ Running(w, "autoClaim") /\ workerCtxDone
    /\ claimed[w] = << >> \/ ready[w]
    /\ sub' = [sub EXCEPT ![w].autoClaim = "returned"]
    /\ claimed' = [claimed EXCEPT ![w] = << >>]
    /\ ready' = [ready EXCEPT ![w] = FALSE]
    /\ UNCHANGED <<invVars, prepVars, stream, lastDelivered, pel, reading,
                   discarded, cur, now, tickets, orders, dispatches,
                   migrated, received, handled, tx, lastStore, creates,
                   workerCtxDone, memVars>>

\* the loop body of the worker ends: the Delivery is answered
BodyEnds(w, err, acked) ==
    /\ cur' = [cur EXCEPT ![w] = 0]
    /\ sub' = [sub EXCEPT ![w].body = "none", ![w].atCancel = FALSE,
                          ![w].last = [entry |-> cur[w], err |-> err,
                                       acked |-> acked,
                                       atCancel |-> sub[w].atCancel]]
\* DispatchOrder(ctx, msg.Data): BeginTx, which fails on a cancelled context
WorkerBegin(w) ==
    /\ Running(w, "worker") /\ cur[w] # 0 /\ sub[w].body = "none"
    /\ IF workerCtxDone
       THEN BodyEnds(w, "context canceled", FALSE)
       ELSE /\ sub' = [sub EXCEPT ![w].body = "begun"]
            /\ UNCHANGED cur
    /\ UNCHANGED <<invVars, prepVars, stream, lastDelivered, pel, reading,
                   claimed, ready, discarded, now, tickets, orders,
                   dispatches, migrated, received, handled, tx, lastStore,
                   creates, workerCtxDone, memVars>>
\* Create, FindByID, DecrementStock and Commit, all on the worker's context:
\* once it is cancelled the next of them fails and the deferred Rollback
\* ends the transaction; the worker answers any error with Nack(true)
WorkerCommit(w) ==
    /\ Running(w, "worker") /\ sub[w].body = "begun"
    /\ IF workerCtxDone
       THEN /\ BodyEnds(w, "context canceled", FALSE)
            /\ UNCHANGED <<tickets, orders>>
       ELSE \E commitOK \in BOOLEAN :
               LET d == DispatchOrder(tickets, orders,
                                      Unmarshal(stream[cur[w]].order),
                                      migrated, TRUE, commitOK)
               IN /\ tickets' = d.tickets
                  /\ orders' = d.orders
                  /\ IF d.err # "nil"
                     THEN BodyEnds(w, d.err, FALSE)
                     ELSE /\ sub' = [sub EXCEPT ![w].body = "committed"]
                          /\ UNCHANGED cur
    /\ UNCHANGED <<invVars, prepVars, stream, lastDelivered, pel, reading,
                   claimed, ready, discarded, now, dispatches, migrated,
                   received, handled, tx, lastStore, creates, workerCtxDone,
                   memVars>>
\* msg.Ack(): XACK on the subscriber's context, which fails (and is only
\* logged) once that context is cancelled
WorkerAck(w) ==
    /\ Running(w, "worker") /\ sub[w].body = "committed"
    /\ pel' = IF workerCtxDone THEN pel ELSE Ack(pel, cur[w])
    /\ BodyEnds(w, "nil", ~workerCtxDone)
    /\ UNCHANGED <<invVars, prepVars, stream, lastDelivered, reading,
                   claimed, ready, discarded, now, tickets, orders,
                   dispatches, migrated, received, handled, tx, lastStore,
                   creates, workerCtxDone, memVars>>
\* for msg := range msgs ends when out is closed
WorkerReturn(w) ==
    /\ Receiving(w) /\ sub[w].out = "closed"
    /\ sub' = [sub EXCEPT ![w].worker = "returned"]
    /\ UNCHANGED <<invVars, prepVars, queueVars, tickets, orders, dispatches,
                   migrated, received, handled, tx, lastStore, creates,
                   workerCtxDone, memVars>>

NextShutdown ==
    \/ Publish
    \/ WorkerCancel
    \/ RunReadGroup(Server)
    \/ RunReadSend(Server)
    \/ ReadLoopReturn(Server)
    \/ \E S \in SUBSET DOMAIN pel : RunAutoClaim(Server, S)
    \/ RunClaimCheck(Server)
    \/ ClaimCheckCancelled(Server)
    \/ RunClaimSend(Server)
    \/ AutoClaimPanic(Server)
    \/ AutoClaimReturn(Server)
    \/ WorkerBegin(Server)
    \/ WorkerCommit(Server)
    \/ WorkerAck(Server)
    \/ WorkerReturn(Server)

SpecShutdown == InitWorker /\ [][NextShutdown]_vars

\* the goroutines keep running: each of them takes its next step
FairSpecShutdown ==
    /\ SpecShutdown
    /\ WF_vars(ReadLoopReturn(Server))
    /\ WF_vars(AutoClaimReturn(Server))
    /\ WF_vars(ClaimCheckCancelled(Server))
    /\ WF_vars(WorkerBegin(Server))
    /\ WF_vars(WorkerCommit(Server))
    /\ WF_vars(WorkerAck(Server))
    /\ WF_vars(WorkerReturn(Server))

\* ------------------------------------------------------------------------
\* C28 - Termination on cancel: once the worker's scope is cancelled, the
\* Delivery stream of SubscribeOrders is eventually closed and the worker
\* loop reading it returns, whether or not anything was published or a
\* Delivery waits to be received.
\* ------------------------------------------------------------------------
C28_TerminatesOnCancel ==
    workerCtxDone ~> (/\ sub[Server].out = "closed"
                      /\ sub[Server].worker = "returned")

\* ------------------------------------------------------------------------
\* C29 - Graceful worker shutdown: a DispatchOrder that was in flight when
\* the worker's scope was cancelled is not aborted by the cancellation,
\* and when it commits its Delivery is acknowledged.
\* ------------------------------------------------------------------------
C29_InFlightCompletes ==
    \A w \in Workers : sub[w].last.atCancel =>
       /\ sub[w].last.err # "context canceled"
       /\ sub[w].last.err = "nil" =>
             sub[w].last.acked /\ sub[w].last.entry \notin DOMAIN pel

\* ------------------------------------------------------------------------
\* The queue with entries of another producer on the stream: an entry
\* without the order field, which newDelivery turns into no Delivery
\* ------------------------------------------------------------------------
Malformed(m) == ~Deliverable(stream[m])

\* XADD orders:stream * data <bytes>, by a producer other than PublishOrder
XAddMalformed ==
    /\ Len(stream) < NumReqs
    /\ stream' = Append(stream, [data |-> << >>])
    /\ UNCHANGED <<invVars, prepVars, lastDelivered, pel, reading, claimed,
                   ready, discarded, cur, now, dbVars>>

NextQueueMalformed == NextQueue \/ XAddMalformed

SpecQueueMalformed == InitInventory /\ [][NextQueueMalformed]_vars

\* ------------------------------------------------------------------------
\* C30 - A malformed broker entry never produces a Delivery and is not
\* retried: once XREADGROUP has returned it, it is skipped, no auto-claim
\* loop takes it again, and its delivery count stays at the one read.
\* ------------------------------------------------------------------------
C30_MalformedSkippedOnce ==
    \A m \in 1..Len(stream) : Malformed(m) =>
       /\ m \notin DOMAIN received
       /\ \A w \in Workers : cur[w] # m
       /\ \A w \in Workers :
             \A i \in 1..Len(claimed[w]) : claimed[w][i] # m
       /\ m \in DOMAIN pel => pel[m].count <= 1
       /\ m \notin discarded

\* ------------------------------------------------------------------------
\* Lock-based order creation (OrderService.Create of the service without
\* the queue): BeginTx, FindByIDWithLock (SELECT ... FOR UPDATE), the stock
\* test, Create, DecrementStock, Commit.  The callers run concurrently, all
\* asking for the same quantity; creates maps that quantity to the results
\* of the calls that have returned
\* ------------------------------------------------------------------------
MaxServiceCreates == 3   \* Create calls of one run

ServiceStages == {"locked", "ordered", "taken"}
ServiceCreateCalls ==
    (LET RECURSIVE Sum(_)
         Sum(S) == IF S = {} THEN 0
                   ELSE LET r == CHOOSE x \in S : TRUE
                        IN Len(creates[r]) + Sum(S \ {r})
     IN Sum(DOMAIN creates))
    + Cardinality({c \in Cancellers : tx[c].stage \in ServiceStages})
\* the quantity of the calls made so far is q
SameQuantityAs(q) ==
    /\ DOMAIN creates \subseteq {q}
    /\ \A c \in Cancellers : tx[c].stage \in ServiceStages => tx[c].quantity = q

\* the order OrderService.Create builds for caller c
ServiceOrder(c, t, q) ==
    [request_id |-> Null, user_id |-> c, ticket_id |-> t, quantity |-> q,
     total_price |-> tickets[t].price * q, status |-> "pending"]

ServiceCreateReturns(c, result) ==
    /\ creates' = Created(tx[c].quantity, result)
    /\ tx' = [tx EXCEPT ![c] = NoTx]
    /\ lastStore' = [StoreOp("Create", tx[c].ticket, tx[c].quantity, result)
                       EXCEPT !.by = c]

\* BeginTx and FindByIDWithLock: the SELECT ... FOR UPDATE waits while
\* another transaction holds the row, then reads it and holds it
ServiceCreateLock(c) ==
    /\ tx[c] = NoTx
    /\ ServiceCreateCalls < MaxServiceCreates
    /\ \E t \in Tickets, q \in Quantities :
          /\ SameQuantityAs(q)
          /\ ~TicketLocked(t)
          /\ tx' = [tx EXCEPT ![c] =
                      [NoTx EXCEPT !.call = "Create", !.stage = "locked",
                                   !.ticket = t, !.quantity = q,
                                   !.read = tickets[t].remaining_stock]]
    /\ UNCHANGED <<tickets, orders, creates, lastStore>>
    /\ StoreUnchanged

\* if ticket.RemainingStock < req.Quantity: ErrInsufficientStock; else
\* the INSERT of the order
ServiceCreateInsert(c) ==
    /\ tx[c].stage = "locked"
    /\ LET k == Create(orders, ServiceOrder(c, tx[c].ticket, tx[c].quantity),
                       migrated)
       IN IF tx[c].read < tx[c].quantity
          THEN ServiceCreateReturns(c, "ErrInsufficientStock")
          ELSE IF k.err # "nil"
          THEN ServiceCreateReturns(c, k.err)
          ELSE /\ tx' = [tx EXCEPT ![c].stage = "ordered"]
               /\ UNCHANGED <<creates, lastStore>>
    /\ UNCHANGED <<tickets, orders>>
    /\ StoreUnchanged

\* DecrementStock inside the transaction
ServiceCreateDecrement(c) ==
    /\ tx[c].stage = "ordered"
    /\ LET d == DecrementStock(tickets, tx[c].ticket, tx[c].quantity) IN
       IF d.err # "nil"
       THEN ServiceCreateReturns(c, d.err)
       ELSE /\ tx' = [tx EXCEPT ![c].stage = "taken"]
            /\ UNCHANGED <<creates, lastStore>>
    /\ UNCHANGED <<tickets, orders>>
    /\ StoreUnchanged

\* Commit: the inserted row and the decrement become visible, or neither
ServiceCreateCommit(c) ==
    /\ tx[c].stage = "taken"
    /\ \E commitOK \in BOOLEAN :
          LET k == Create(orders, ServiceOrder(c, tx[c].ticket, tx[c].quantity),
                          migrated)
          IN IF commitOK
             THEN /\ orders' = k.orders
                  /\ tickets' = [tickets EXCEPT ![tx[c].ticket].remaining_stock =
                                                   @ - tx[c].quantity]
                  /\ ServiceCreateReturns(c, "nil")
             ELSE /\ UNCHANGED <<tickets, orders>>
                  /\ ServiceCreateReturns(c, "commit failed")
    /\ StoreUnchanged

\* the test creates its ticket with any stock
InitServiceCreate ==
    /\ info  = [t \in Tickets |-> EmptyHash]
    /\ users = [t \in Tickets |-> EmptyHash]
    /\ trace = << >>
    /\ pc = [r \in Reqs |-> "idle"]
    /\ req = [r \in Reqs |-> NoRequest]
    /\ ctxDone = [r \in Reqs |-> FALSE]
    /\ pubErr = [r \in Reqs |-> "nil"]
    /\ resp = [r \in Reqs |-> "none"]
    /\ stream = << >>
    /\ lastDelivered = 0
    /\ pel = << >>
    /\ reading = [w \in Workers |-> << >>]
    /\ claimed = [w \in Workers |-> << >>]
    /\ ready = [w \in Workers |-> FALSE]
    /\ discarded = {}
    /\ cur = [w \in Workers |-> 0]
    /\ now = 0
    /\ \E s \in 0..TicketStock :
          tickets = [t \in Tickets |->
                       [total_stock |-> s, remaining_stock |-> s,
                        max_per_user |-> TicketLimit, price |-> Price,
                        deleted |-> FALSE]]
    /\ orders = << >>
    /\ dispatches = {}
    /\ received = << >>
    /\ handled = << >>
    /\ tx = [c \in Cancellers |-> NoTx]
    /\ lastStore = NoStoreOp
    /\ creates = << >>
    /\ workerCtxDone = FALSE
    /\ sub = [w \in Workers |-> Subscribed]
    /\ InitChanQueue
    /\ migrated \in BOOLEAN

NextServiceCreate ==
    \/ \E c \in Cancellers : ServiceCreateLock(c)
    \/ \E c \in Cancellers : ServiceCreateInsert(c)
    \/ \E c \in Cancellers : ServiceCreateDecrement(c)
    \/ \E c \in Cancellers : ServiceCreateCommit(c)

SpecServiceCreate == InitServiceCreate /\ [][NextServiceCreate]_vars

\* the calls of quantity q that returned result
Results(q, result) == {i \in 1..Len(creates[q]) : creates[q][i] = result}

\* ------------------------------------------------------------------------
\* C31 - Lock-based order creation does not oversell: for a ticket created
\* with stock S and N Create calls of quantity q, in any interleaving, all
\* returned and none failed by the database: min(N, S div q) of them
\* succeeded, the others returned ErrInsufficientStock, remaining_stock is
\* S - successes * q and one row was written per success.
\* ------------------------------------------------------------------------
C31_NoOversell ==
    \A q \in DOMAIN creates :
       LET N == Len(creates[q])
           ok == Cardinality(Results(q, "nil"))
           refused == Cardinality(Results(q, "ErrInsufficientStock"))
       IN  /\ \A c \in Cancellers : tx[c] = NoTx
           /\ ok + refused = N
           => \A t \in Tickets :
                 /\ ok = Least(N, tickets[t].total_stock \div q)
                 /\ tickets[t].remaining_stock = tickets[t].total_stock - ok * q
                 /\ Len(orders) = ok

C31_Witness ==
    /\ \A c \in Cancellers : tx[c] = NoTx
    /\ \E q \in DOMAIN creates :
          /\ Len(creates[q]) = MaxServiceCreates
          /\ Results(q, "nil") # {}
          /\ Results(q, "ErrInsufficientStock") # {}
          /\ Results(q, "nil") \cup Results(q, "ErrInsufficientStock")
                = 1..MaxServiceCreates
    /\ \E t \in Tickets : tickets[t].remaining_stock = 1

\* ------------------------------------------------------------------------
\* C32 - Warmup(ticket, stock, price, limit) overwrites the inventory entry:
\* right after it GetInfo returns (stock, price, limit), whatever reserves
\* and rollbacks came before, and the per-user purchase counters of the
\* ticket are as they were before the warmup.
\* ------------------------------------------------------------------------
C32_WarmupOverwrites ==
    \A i \in Idx : IsWarmup(i) =>
       /\ GetInfo(PostInfo(i)) = [err |-> "nil", stock |-> trace[i].arg.stock,
                                  price |-> Price, limit |-> trace[i].arg.limit]
       /\ PostUsers(i) = trace[i].preUsers

\* a warmup of a ticket that held another stock and limit and on which a
\* user has bought
C32_Witness ==
    \E i \in Idx :
       /\ IsWarmup(i)
       /\ DOMAIN trace[i].preInfo = {"stock", "price", "limit"}
       /\ trace[i].preInfo["stock"] # trace[i].arg.stock
       /\ trace[i].preInfo["limit"] # trace[i].arg.limit
       /\ \E u \in Users : UserBought(trace[i].preUsers, u) > 0
       /\ \E k \in Idx : k < i /\ Granted(k) /\ trace[k].ticket = trace[i].ticket

\* ------------------------------------------------------------------------
\* C33 - Reserve tests the stock before the per-user cap: a reserve that
\* finds both stock < quantity and purchased + quantity > limit returns
\* insufficient_stock.
\* ------------------------------------------------------------------------
BothChecksFail(i) ==
    /\ IsReserve(i)
    /\ trace[i].err # "transport"
    /\ {"stock", "price", "limit"} \subseteq DOMAIN trace[i].preInfo
    /\ trace[i].preInfo["stock"] < trace[i].qty
    /\ UserBought(trace[i].preUsers, trace[i].user) + trace[i].qty
          > trace[i].preInfo["limit"]

C33_StockCheckedFirst ==
    \A i \in Idx : BothChecksFail(i) =>
       /\ trace[i].err = "ErrInsufficientStock"
       /\ PostInfo(i) = trace[i].preInfo
       /\ PostUsers(i) = trace[i].preUsers

\* a reserve failing both tests, once on a ticket whose stock a purchase
\* has used up and whose buyer is at the limit
C33_Witness ==
    \E i \in Idx :
       /\ BothChecksFail(i)
       /\ trace[i].err = "ErrInsufficientStock"
       /\ UserBought(trace[i].preUsers, trace[i].user) > 0

\* ------------------------------------------------------------------------
\* C34 - Conservation.  After one warmup with stock S and any reserves and
\* rollbacks of granted quantities, the stock and the purchase counts of
\* all users add up to S.
\* ------------------------------------------------------------------------
\* sum of the fields of a users hash
RECURSIVE SumBought(_)
SumBought(us) ==
    IF DOMAIN us = {} THEN 0
    ELSE LET u == CHOOSE x \in DOMAIN us : TRUE IN
         us[u] + SumBought([x \in DOMAIN us \ {u} |-> us[x]])

C34_Conservation ==
    \A t \in Tickets :
        WarmedOnceFirst(t) /\ RollbacksOfGrantsOnly(t) =>
            info[t]["stock"] + SumBought(users[t]) = WarmupOf(t).arg.stock

\* two users hold purchases on the ticket
C34_Witness ==
    \E t \in Tickets :
        /\ WarmedOnceFirst(t) /\ RollbacksOfGrantsOnly(t)
        /\ \E u, v \in DOMAIN users[t] : u # v /\ users[t][u] > 0 /\ users[t][v] > 0

\* ------------------------------------------------------------------------
\* C35 - No send after close: in no interleaving of the cancellation, the
\* read loop and the auto-claim loop does the auto-claim loop send a
\* Delivery on the channel of SubscribeOrders after it was closed.
\* ------------------------------------------------------------------------
SentOnClosed(w) == sub[w].autoClaim = "panicked"

C35_NoSendAfterClose == \A w \in Workers : ~SentOnClosed(w)

\* ------------------------------------------------------------------------
\* C36 - At most one delivery of a message is outstanding: auto-claim does
\* not redeliver a message while an earlier delivery of it is neither Acked
\* nor Nacked, so no two subscribers hold (and dispatch) the same message
\* at the same time.
\* ------------------------------------------------------------------------
\* the subscriber of consumer w has received a Delivery of m and has not
\* answered it yet
Outstanding(w, m) == cur[w] = m

C36_OneOutstandingDelivery ==
    \A m \in 1..Len(stream) : \A w1, w2 \in Workers :
        Outstanding(w1, m) /\ Outstanding(w2, m) => w1 = w2

\* ------------------------------------------------------------------------
\* C37 - No double credit: whatever Cancel calls are made on an order, one
\* after the other or concurrently (both reading the order before either
\* commits), the order's quantity is added to the ticket's remaining_stock
\* at most once.  An order is cancelled only by a Cancel call that commits,
\* together with its credit, so a Cancel call that commits on an order
\* already cancelled credits its quantity a second time.
\* ------------------------------------------------------------------------
CreditedAgain(c) ==
    /\ CancelCommitted(c)
    /\ orders[tx[c].order].status = "cancelled"
    /\ tickets'[tx[c].ticket].remaining_stock
          > tickets[tx[c].ticket].remaining_stock

C37_NoDoubleCredit == [][\A c \in Cancellers : ~CreditedAgain(c)]_vars

\* ------------------------------------------------------------------------
\* C38 - Cross-store ordering: the ticket warmed once from its row, before
\* any request, and only PrepareOrder and DispatchOrder running afterwards:
\* in every state the row's remaining_stock is at least the in-memory
\* stock.
\* ------------------------------------------------------------------------
C38_CrossStoreOrdering ==
    WarmedFirst =>
       \A t \in Tickets : tickets[t].remaining_stock >= StockOf(info[t])

\* ------------------------------------------------------------------------
\* The channel queue with its worker: PublishOrder from concurrent callers,
\* the goroutine of SubscribeOrders and the loop of OrderWorker.Start, on
\* a context that is not cancelled.  A send on the full channel parks the
\* sender in the channel's queue of senders; a receive takes the oldest
\* order of the buffer and moves the order of the first parked sender into
\* the buffer, which resumes that sender
\* ------------------------------------------------------------------------
\* the worker as a sender on ch (its Nack closure)
NackSender == 0
RestVars == <<invVars, prepVars, queueVars, tickets, orders, dispatches,
              migrated, received, handled, tx, lastStore, creates,
              workerCtxDone, sub>>

\* PublishOrder: q.ch <- order
ChanPublishOrder(p) ==
    /\ publisher[p] = "idle"
    /\ IF Len(ch) < BufferSize
       THEN /\ ch' = Append(ch, p)
            /\ publisher' = [publisher EXCEPT ![p] = "done"]
            /\ UNCHANGED sendq
       ELSE /\ sendq' = Append(sendq, [by |-> p, order |-> p])
            /\ publisher' = [publisher EXCEPT ![p] = "blocked"]
            /\ UNCHANGED ch
    /\ UNCHANGED <<subscriber, memWorker, RestVars>>

\* the goroutine of SubscribeOrders: case order, ok := <-q.ch
SubscriberReceive ==
    /\ subscriber.state = "select"
    /\ ch # << >>
    /\ subscriber' = [state |-> "handover", order |-> Head(ch)]
    /\ IF sendq = << >>
       THEN /\ ch' = Tail(ch)
            /\ UNCHANGED <<sendq, publisher, memWorker>>
       ELSE LET s == Head(sendq) IN
            /\ ch' = Append(Tail(ch), s.order)
            /\ sendq' = Tail(sendq)
            /\ IF s.by = NackSender
               THEN memWorker' = AtReceive /\ UNCHANGED publisher
               ELSE /\ publisher' = [publisher EXCEPT ![s.by] = "done"]
                    /\ UNCHANGED memWorker
    /\ UNCHANGED RestVars

\* out <- Delivery{...} meets the worker's for msg := range msgs: out is
\* unbuffered and the send is not in a select
SubscriberHandOver ==
    /\ subscriber.state = "handover"
    /\ memWorker.state = "receive"
    /\ memWorker' = [state |-> "dispatch", order |-> subscriber.order]
    /\ subscriber' = AtSelect
    /\ UNCHANGED <<ch, sendq, publisher, RestVars>>

\* the loop body of the worker: DispatchOrder, then msg.Ack() or, on an
\* error, msg.Nack(true), which is q.ch <- order
ChanWorkerBody ==
    /\ memWorker.state = "dispatch"
    /\ \E err \in {"nil", "transport"} :
          IF WorkerAnswer(err) = "ack"
          THEN memWorker' = AtReceive /\ UNCHANGED <<ch, sendq>>
          ELSE IF Len(ch) < BufferSize
          THEN /\ ch' = Append(ch, memWorker.order)
               /\ memWorker' = AtReceive
               /\ UNCHANGED sendq
          ELSE /\ sendq' = Append(sendq, [by |-> NackSender,
                                          order |-> memWorker.order])
               /\ memWorker' = [memWorker EXCEPT !.state = "nack"]
               /\ UNCHANGED ch
    /\ UNCHANGED <<publisher, subscriber, RestVars>>

NextChanQueue ==
    \/ \E p \in Publishers : ChanPublishOrder(p)
    \/ SubscriberReceive
    \/ SubscriberHandOver
    \/ ChanWorkerBody

SpecChanQueue == InitInventory /\ [][NextChanQueue]_vars

\* the goroutines keep running: each takes its next step when it can
FairSpecChanQueue ==
    /\ SpecChanQueue
    /\ WF_vars(SubscriberReceive)
    /\ WF_vars(SubscriberHandOver)
    /\ WF_vars(ChanWorkerBody)

\* ------------------------------------------------------------------------
\* C39 - The channel queue never deadlocks: with concurrent publishers, the
\* subscriber goroutine and one worker, a Nack(true) of the worker (the
\* send of the order back on the bounded channel) always eventually
\* completes, also when the buffer is full and the subscriber goroutine
\* is waiting to hand over the next Delivery.
\* ------------------------------------------------------------------------
C39_NackCompletes == (memWorker.state = "nack") ~> (memWorker.state # "nack")

\* ------------------------------------------------------------------------
\* The order service on a ticket on sale: the ticket has been warmed from
\* its row and the buyer's reserve granted in memory; the orders are then
\* confirmed, cancelled and deleted through the service
\* ------------------------------------------------------------------------
\* the buyer of the orders the test helper inserts
Buyer == 1
\* the inventory after WarmUpInventory from the row and one granted
\* DecreStock of the buyer
InitCancel ==
    \E t \in Tickets, q \in Quantities :
       LET warmed == WarmUpInventory(EmptyHash, TicketStock, Price, TicketLimit)
           r == DecreStock(warmed, EmptyHash, q, Buyer, TRUE)
       IN /\ r.ok
          /\ info = [x \in Tickets |-> IF x = t THEN r.info ELSE EmptyHash]
          /\ users = [x \in Tickets |-> IF x = t THEN r.users ELSE EmptyHash]
          /\ trace = << CallAt("warmup", 0, t, 0, 0, "nil",
                               [stock |-> TicketStock, limit |-> TicketLimit],
                               EmptyHash, EmptyHash),
                        CallAt("reserve", 0, t, Buyer, q, r.err,
                               [price |-> r.price], warmed, EmptyHash) >>
          /\ InitRest
          /\ migrated = TRUE

\* OrderServiceImpl.DeleteOrder / DeleteOrderByOrderID: repository.Delete,
\* UPDATE orders SET deleted_at = $1 WHERE id = $3 AND deleted_at IS NULL,
\* which waits for a transaction that holds the row
StoreDeleteOrder ==
    /\ \E id \in 1..Len(orders) :
          /\ ~OrderLocked(id)
          /\ orders' = IF orders[id].deleted THEN orders
                       ELSE [orders EXCEPT ![id].deleted = TRUE]
          /\ lastStore' = OrderOp("DeleteOrder", 0, id, orders[id].status,
                                  IF orders[id].deleted
                                  THEN "ErrOrderNotFound" ELSE "nil",
                                  tickets, orders)
    /\ UNCHANGED <<tickets, tx, creates>>
    /\ StoreUnchanged

NextCancel ==
    \/ NextOrders
    \/ StoreDeleteOrder

SpecCancel == InitCancel /\ [][NextCancel]_vars

\* ------------------------------------------------------------------------
\* C40 - CancelOrder and DeleteOrder leave the in-memory inventory as it
\* is: a Cancel call credits remaining_stock of the row only; the ticket's
\* in-memory stock and the buyers' purchase counts keep the values the
\* reserves set.
\* ------------------------------------------------------------------------
DeleteStep == lastStore' # lastStore /\ lastStore'.op = "DeleteOrder"

C40_CancelLeavesInventory ==
    [][(DeleteStep \/ \E c \in Cancellers : CancelStep(c))
          => info' = info /\ users' = users]_vars

\* a Cancel call has committed its credit on a ticket whose in-memory
\* stock is below the stock it was warmed with, the buyer's purchase still
\* counted
C40_Witness ==
    /\ lastStore.op \in CancelCalls /\ lastStore.err = "nil"
    /\ lastStore.credited = lastStore.quantity
    /\ WarmedFirst
    /\ \E t \in Tickets :
          /\ lastStore.ticket = t
          /\ StockOf(info[t]) = trace[1].arg.stock - lastStore.quantity
          /\ UserBought(users[t], orders[lastStore.order].user_id)
                = lastStore.quantity
          /\ tickets[t].remaining_stock > StockOf(info[t])

====
